---- MODULE Spec2Model ----
(***************************************************************************)
(* Verification model of the C++23 syntax-diagram viewer:                  *)
(*   - App.filterNames and the memoised per-section filter (App.tsx),      *)
(*   - the rule catalog in its two copies (cppGrammar.ts, initial and      *)
(*     revised) with the EBNF table (ebnfDefinitions.ts),                  *)
(*   - diagramToSvgString (diagramToSvg.ts).                               *)
(* JavaScript strings are TLA+ strings; Len, SubSeq and \o act on them.    *)
(***************************************************************************)
EXTENDS Integers, Sequences, FiniteSets, TLC

VARIABLES
    query,      \* App: the `query` state of useState("")
    names,      \* the argument of the filterNames call under study
    result,     \* what that filterNames call returned
    fpc,        \* "start" before the call, "done" after it
    copy,       \* which cppGrammar.ts is built: "initial" or "revised"
    rrBuild,    \* how the railroad-diagrams build exports its primitives
    pc,         \* cppGrammar module: "load", "ready" or "called"
    loaded,     \* number of rules.set statements executed so far
    rules,      \* the module-level Map `rules`
    call,       \* the accessor call in progress
    ret,        \* its completion: returned value or thrown exception
    invoked,    \* the factories that call invoked, by source line, in order
    kept,       \* the diagrams the caller still holds from earlier calls
    input,      \* the argument of the diagramToSvgString call under study
    output,     \* its completion
    rpc,        \* "start" before that call, "done" after it
    memo,       \* App: the useMemo cell behind filteredBySection
    view        \* App: the <section> elements of the last render

filterVars == <<query, names, result, fpc>>
catalogVars == <<copy, rrBuild, pc, loaded, rules, call, ret, invoked, kept>>
renderVars == <<input, output, rpc>>
appVars == <<memo, view>>
vars == <<query, names, result, fpc, copy, rrBuild, pc, loaded, rules, call, ret,
          invoked, kept, input, output, rpc, memo, view>>

----------------------------------------------------------------------------
(* Bounds of the model *)

MaxQueryLen == 3
MaxNames == 2
\* How many diagrams of earlier createRuleDiagram calls a caller holds on to.
MaxKept == 1
\* How many rules.set statements a module body under study has.
MaxStatements == 4

----------------------------------------------------------------------------
(* JavaScript string primitives used by filterNames *)

\* Characters the bounded inputs are built from: a letter in both cases,
\* a second letter, and a white-space character.
Alphabet == {"a", "A", "b", " "}

\* Characters String.prototype.trim removes (the ones in Alphabet, plus tab).
WhiteSpace == {" ", "\t"}

LowerMap ==
    ("A" :> "a") @@ ("B" :> "b") @@ ("C" :> "c") @@ ("D" :> "d") @@
    ("E" :> "e") @@ ("F" :> "f") @@ ("G" :> "g") @@ ("H" :> "h") @@
    ("I" :> "i") @@ ("J" :> "j") @@ ("K" :> "k") @@ ("L" :> "l") @@
    ("M" :> "m") @@ ("N" :> "n") @@ ("O" :> "o") @@ ("P" :> "p") @@
    ("Q" :> "q") @@ ("R" :> "r") @@ ("S" :> "s") @@ ("T" :> "t") @@
    ("U" :> "u") @@ ("V" :> "v") @@ ("W" :> "w") @@ ("X" :> "x") @@
    ("Y" :> "y") @@ ("Z" :> "z")

CharAt(s, i) == SubSeq(s, i, i)

\* String.prototype.toLowerCase
RECURSIVE toLowerCase(_)
toLowerCase(s) ==
    IF Len(s) = 0 THEN ""
    ELSE LET c == CharAt(s, 1)
         IN  (IF c \in DOMAIN LowerMap THEN LowerMap[c] ELSE c)
                 \o toLowerCase(SubSeq(s, 2, Len(s)))

\* String.prototype.trim
RECURSIVE trimStart(_)
trimStart(s) ==
    IF Len(s) > 0 /\ CharAt(s, 1) \in WhiteSpace
    THEN trimStart(SubSeq(s, 2, Len(s)))
    ELSE s

RECURSIVE trimEnd(_)
trimEnd(s) ==
    IF Len(s) > 0 /\ CharAt(s, Len(s)) \in WhiteSpace
    THEN trimEnd(SubSeq(s, 1, Len(s) - 1))
    ELSE s

trim(s) == trimEnd(trimStart(s))

\* String.prototype.includes
includes(s, sub) ==
    \/ Len(sub) = 0
    \/ \E i \in 1..(Len(s) - Len(sub) + 1) : SubSeq(s, i, i + Len(sub) - 1) = sub

----------------------------------------------------------------------------
(* App.filterNames *)

\* Variants of filterNames with one plausible slip each.
\* The name is not lower-cased before the comparison.
\* A name is kept when it starts with the query.
filterNames_startsWith(qry, ns) ==
    LET q == toLowerCase(trim(qry))
    IN  IF q = "" THEN ns
        ELSE SelectSeq(ns, LAMBDA n : /\ Len(q) <= Len(n)
                                      /\ toLowerCase(SubSeq(n, 1, Len(q))) = q)

filterNames_caseSensitive(qry, ns) ==
    LET q == toLowerCase(trim(qry))
    IN  IF q = "" THEN ns
        ELSE SelectSeq(ns, LAMBDA n : includes(n, q))

\* Receiver and argument of includes are swapped.
filterNames_swapped(qry, ns) ==
    LET q == toLowerCase(trim(qry))
    IN  IF q = "" THEN ns
        ELSE SelectSeq(ns, LAMBDA n : includes(q, toLowerCase(n)))

\* The query is not trimmed.
filterNames_noTrim(qry, ns) ==
    LET q == toLowerCase(qry)
    IN  IF q = "" THEN ns
        ELSE SelectSeq(ns, LAMBDA n : includes(toLowerCase(n), q))

\* const q = query.trim().toLowerCase();
\* if (!q) return names;
\* return names.filter((n) => n.toLowerCase().includes(q));
filterNames(qry, ns) ==
    LET q == toLowerCase(trim(qry))
    IN  IF q = "" THEN ns
        ELSE SelectSeq(ns, LAMBDA n : includes(toLowerCase(n), q))

----------------------------------------------------------------------------
(* JavaScript values and completions *)

Undefined == [t |-> "undefined"]
Str(s) == [t |-> "string", s |-> s]
Arr(elems) == [t |-> "array", elems |-> elems]
\* A diagram factory: the arrow function passed to rules.set at `line`.
Factory(line) == [t |-> "function", line |-> line]
\* A function object of the JavaScript runtime, e.g. Object.prototype.toString.
Builtin(name) == [t |-> "function", builtin |-> name]
\* A plain object of the JavaScript runtime, e.g. Object.prototype.
BuiltinObject(name) == [t |-> "object", builtin |-> name]
\* An object built by a railroad-diagrams primitive.
RRObject(node) == [t |-> "object", node |-> node]
ErrorValue(ctor, message) == [t |-> "error", ctor |-> ctor, message |-> Str(message)]

Return(v) == [threw |-> FALSE, value |-> v]
Throw(e) == [threw |-> TRUE, value |-> e]

\* Truthiness of the values above (`!factory`, `factory ? ... : ...`).
Truthy(v) ==
    CASE v.t = "undefined" -> FALSE
      [] v.t = "string" -> v.s # ""
      [] OTHER -> TRUE

----------------------------------------------------------------------------
(* Map<string, () => any> and plain-object property lookup *)

\* A Map is the sequence of its entries in insertion order.
MapHas(m, k) == \E i \in 1..Len(m) : m[i].key = k
MapIndex(m, k) == CHOOSE i \in 1..Len(m) : m[i].key = k
MapGet(m, k) == IF MapHas(m, k) THEN m[MapIndex(m, k)].value ELSE Undefined
\* An entry that exists is left as it is.
MapSet_keepFirst(m, k, v) ==
    IF MapHas(m, k) THEN m ELSE Append(m, [key |-> k, value |-> v])

MapSet(m, k, v) ==
    IF MapHas(m, k)
    THEN [m EXCEPT ![MapIndex(m, k)] = [key |-> k, value |-> v]]
    ELSE Append(m, [key |-> k, value |-> v])
MapKeys(m) == [i \in 1..Len(m) |-> m[i].key]

\* Properties every plain object inherits from Object.prototype.
ObjectPrototype ==
    <<
    <<"constructor", Builtin("Object")>>,
    <<"__defineGetter__", Builtin("Object.prototype.__defineGetter__")>>,
    <<"__defineSetter__", Builtin("Object.prototype.__defineSetter__")>>,
    <<"hasOwnProperty", Builtin("Object.prototype.hasOwnProperty")>>,
    <<"__lookupGetter__", Builtin("Object.prototype.__lookupGetter__")>>,
    <<"__lookupSetter__", Builtin("Object.prototype.__lookupSetter__")>>,
    <<"isPrototypeOf", Builtin("Object.prototype.isPrototypeOf")>>,
    <<"propertyIsEnumerable", Builtin("Object.prototype.propertyIsEnumerable")>>,
    <<"toString", Builtin("Object.prototype.toString")>>,
    <<"valueOf", Builtin("Object.prototype.valueOf")>>,
    <<"__proto__", BuiltinObject("Object.prototype")>>,
    <<"toLocaleString", Builtin("Object.prototype.toLocaleString")>>
    >>

\* An object literal is the sequence of its own <<key, value>> properties.
HasOwn(obj, k) == \E i \in 1..Len(obj) : obj[i][1] = k
OwnValue(obj, k) == obj[CHOOSE i \in 1..Len(obj) : obj[i][1] = k][2]

\* obj[k] for an object literal of strings: the own property when there is
\* one, else the property found on the prototype chain, else undefined.
GetProperty(obj, k) ==
    IF HasOwn(obj, k) THEN Str(OwnValue(obj, k))
    ELSE IF HasOwn(ObjectPrototype, k) THEN OwnValue(ObjectPrototype, k)
    ELSE Undefined

\* Object.keys(obj): the own enumerable string keys, in insertion order.
ObjectKeys(obj) == [i \in 1..Len(obj) |-> obj[i][1]]

----------------------------------------------------------------------------
(* Diagram primitives: the argument trees the rule factories build *)

Kinds ==
    {"Diagram", "Sequence", "Choice", "Optional", "OneOrMore", "ZeroOrMore",
     "Terminal", "NonTerminal", "Stack", "Comment"}

Node(kind, text, index, items) ==
    [kind |-> kind, text |-> text, index |-> index, items |-> items]

Diagram(items) == Node("Diagram", "", 0, items)
Sequence(items) == Node("Sequence", "", 0, items)
Choice(index, items) == Node("Choice", "", index, items)
Optional(item) == Node("Optional", "", 0, <<item>>)
OneOrMore(item) == Node("OneOrMore", "", 0, <<item>>)
ZeroOrMore(item) == Node("ZeroOrMore", "", 0, <<item>>)
Terminal(s) == Node("Terminal", s, 0, <<>>)
NonTerminal(s) == Node("NonTerminal", s, 0, <<>>)
Stack(items) == Node("Stack", "", 0, items)
Comment(s) == Node("Comment", s, 0, <<>>)

T(s) == Terminal(s)
NT(s) == NonTerminal(s)
K(s) == Terminal(s)

\* const <name> = <def>; ... <body>: a local of a block-bodied factory, and
\* a use of that local.  A use yields the object the local holds; it builds
\* nothing.
Const(name, def, body) == Node("const", name, 0, <<def, body>>)
Ref(name) == Node("ref", name, 0, <<>>)

\* The default index counts the operators instead of naming the first one.
chain_defaultPastEnd(base, ops) ==
    Sequence(<<
        NT(base),
        ZeroOrMore(Sequence(<<Choice(Len(ops), [i \in 1..Len(ops) |-> T(ops[i])]), NT(base)>>))
    >>)

\* The base reference is built once and placed at both positions.
chain_sharedBase(base, ops) ==
    Const("operand", NT(base),
          Sequence(<<
              Ref("operand"),
              ZeroOrMore(Sequence(<<Choice(0, [i \in 1..Len(ops) |-> T(ops[i])]),
                                    Ref("operand")>>))
          >>))

\* precedence-chain helper of the revised catalog
chain(base, ops) ==
    Sequence(<<
        NT(base),
        ZeroOrMore(Sequence(<<Choice(0, [i \in 1..Len(ops) |-> T(ops[i])]), NT(base)>>))
    >>)

\* One rules.set(name, factory) statement: the factory written at `line`
\* evaluates `body` each time it is invoked.
Reg(name, line, body) == [name |-> name, line |-> line, body |-> body]

----------------------------------------------------------------------------
(* JavaScript values handed to diagramToSvgString *)

Null == [t |-> "null"]
Bool(b) == [t |-> "boolean", b |-> b]
Num(n) == [t |-> "number", n |-> n]
Symbol(description) == [t |-> "symbol", description |-> description]

\* A property that holds a function: what a call of it does.
Returns(v) == [m |-> "returns", v |-> v]
Throws(e) == [m |-> "throws", e |-> e]
\* A property that is missing, or holds something that is not a function.
Absent == [m |-> "absent"]
NotCallable == [m |-> "value"]

\* An object described by its toSVG and toString members.
ObjectWith(toSVG, toString) == [t |-> "object", toSVG |-> toSVG, toString |-> toString]
PlainObject == ObjectWith(Absent, Returns(Str("[object Object]")))
\* Object.create(null): no member at all, not even toString.
BareObject == ObjectWith(Absent, Absent)

\* An object with a nodeType property: a DOM node.  outerHTML is a string
\* for an Element and undefined for any other node; `xml` is what
\* new XMLSerializer().serializeToString(node) completes with.
DomNode(outerHTML, xml) == [t |-> "node", outerHTML |-> outerHTML, xml |-> xml]

\* An Error whose message is not a string.
ErrorWithMessage(message) == [t |-> "error", ctor |-> "Error", message |-> message]
\* An object whose `message` getter throws.
ThrowingMessage(e) == [t |-> "object", messageThrows |-> e]

NoXMLSerializer == ErrorValue("ReferenceError", "XMLSerializer is not defined")
NotPrimitive == ErrorValue("TypeError", "Cannot convert object to primitive value")
SymbolToString == ErrorValue("TypeError", "Cannot convert a Symbol value to a string")

Digits == <<"0", "1", "2", "3", "4", "5", "6", "7", "8", "9">>

\* Number.prototype.toString for the naturals the model uses.
RECURSIVE NumberToString(_)
NumberToString(n) ==
    IF n < 10 THEN Digits[n + 1]
    ELSE NumberToString(n \div 10) \o Digits[(n % 10) + 1]

\* !v
Falsy(v) ==
    CASE v.t = "undefined" -> TRUE
      [] v.t = "null" -> TRUE
      [] v.t = "boolean" -> ~v.b
      [] v.t = "number" -> v.n = 0
      [] v.t = "string" -> v.s = ""
      [] OTHER -> FALSE

Nullish(v) == v.t \in {"undefined", "null"}

\* The abstract operation ToString of template literals and string
\* concatenation; String(v) differs from it only for symbols.
ToStringOp(v) ==
    CASE v.t = "string" -> Return(v)
      [] v.t = "undefined" -> Return(Str("undefined"))
      [] v.t = "null" -> Return(Str("null"))
      [] v.t = "boolean" -> Return(Str(IF v.b THEN "true" ELSE "false"))
      [] v.t = "number" -> Return(Str(NumberToString(v.n)))
      [] v.t = "symbol" -> Throw(SymbolToString)
      [] v.t = "error" ->
            IF v.message.t = "string"
            THEN Return(Str(v.ctor \o ": " \o v.message.s))
            ELSE IF v.message.t = "symbol" THEN Throw(SymbolToString)
            ELSE Return(Str(v.ctor))
      [] v.t = "function" -> Return(Str("function () { [code] }"))
      [] v.t = "node" -> Return(Str("[object SVGSVGElement]"))
      [] v.t = "object" /\ "toString" \in DOMAIN v ->
            CASE v.toString.m = "returns" /\ v.toString.v.t = "string" ->
                    Return(v.toString.v)
              [] v.toString.m = "throws" -> Throw(v.toString.e)
              [] OTHER -> Throw(NotPrimitive)
      [] OTHER -> Return(Str("[object Object]"))

\* String(v)
StringOf(v) ==
    IF v.t = "symbol" THEN Return(Str("Symbol(" \o v.description \o ")"))
    ELSE ToStringOp(v)

\* e?.message
MessageOf(e) ==
    CASE Nullish(e) -> Return(Undefined)
      [] e.t = "error" -> Return(e.message)
      [] e.t = "object" /\ "messageThrows" \in DOMAIN e -> Throw(e.messageThrows)
      [] OTHER -> Return(Undefined)

----------------------------------------------------------------------------
(* The serialisation a railroad-diagrams object offers *)

\* Which members a Diagram object of the installed build has: toSVG()
\* returning a string, toSVG() returning a DOM element, or toString() only.
RRShapes == {"toSVG string", "toSVG element", "toString"}

\* Text is escaped on its way into markup.
RECURSIVE EscapeText(_)
EscapeText(s) ==
    IF Len(s) = 0 THEN ""
    ELSE LET c == CharAt(s, 1)
         IN  (CASE c = "<" -> "&lt;"
                [] c = ">" -> "&gt;"
                [] c = "&" -> "&amp;"
                [] OTHER -> c) \o EscapeText(SubSeq(s, 2, Len(s)))

\* The markup of a node: one element per node, children in document order,
\* a box with its label for Terminal, NonTerminal and Comment.
RECURSIVE Svg(_), SvgOfItems(_, _)
Svg(node) ==
    CASE node.kind = "Diagram" ->
            "<svg class=\"railroad-diagram\">" \o SvgOfItems(node.items, 1) \o "</svg>"
      [] node.kind \in {"Terminal", "NonTerminal", "Comment"} ->
            "<g class=\"" \o node.kind \o "\"><text>" \o EscapeText(node.text)
                \o "</text></g>"
      [] node.kind = "Choice" ->
            "<g class=\"Choice\" data-default=\"" \o NumberToString(node.index)
                \o "\">" \o SvgOfItems(node.items, 1) \o "</g>"
      [] OTHER ->
            "<g class=\"" \o node.kind \o "\">" \o SvgOfItems(node.items, 1) \o "</g>"

SvgOfItems(items, from) ==
    IF from > Len(items) THEN ""
    ELSE Svg(items[from]) \o SvgOfItems(items, from + 1)

\* The toSVG and toString members of a value.
MemberToSVG(shape, v) ==
    CASE v.t = "object" /\ "node" \in DOMAIN v ->
            CASE shape = "toSVG string" -> Returns(Str(Svg(v.node)))
              [] shape = "toSVG element" ->
                    Returns(DomNode(Str(Svg(v.node)), Return(Str(Svg(v.node)))))
              [] OTHER -> Absent
      [] v.t = "object" /\ "toSVG" \in DOMAIN v -> v.toSVG
      [] OTHER -> Absent

MemberToString(shape, v) ==
    CASE v.t = "object" /\ "node" \in DOMAIN v -> Returns(Str(Svg(v.node)))
      [] v.t = "object" /\ "toString" \in DOMAIN v -> v.toString
      [] v.t = "object" -> Returns(Str("[object Object]"))
      [] OTHER -> Returns(StringOf(v).value)

----------------------------------------------------------------------------
(* diagramToSvgString *)

\* catch (e) { return `<!-- Render error: ${e?.message ?? String(e)} -->`; }
RenderError(e) ==
    LET message == MessageOf(e)
    IN  IF message.threw THEN message
        ELSE LET text == IF Nullish(message.value) THEN StringOf(e)
                         ELSE Return(message.value)
             IN  IF text.threw THEN text
                 ELSE LET shown == ToStringOp(text.value)
                      IN  IF shown.threw THEN shown
                          ELSE Return(Str("<!-- Render error: " \o shown.value.s \o " -->"))

\* The body of the try block.
RenderAttempt(shape, diagram) ==
    LET toSVG == MemberToSVG(shape, diagram)
        toString == MemberToString(shape, diagram)
    IN  IF toSVG.m \in {"returns", "throws"}
        THEN IF toSVG.m = "throws" THEN Throw(toSVG.e)
             ELSE LET svg == toSVG.v
                  IN  IF svg.t = "string" THEN Return(svg)
                      ELSE IF svg.t = "node"
                      THEN IF ~Nullish(svg.outerHTML) THEN Return(svg.outerHTML)
                           ELSE svg.xml
                      ELSE Return(Str("<!-- toSVG() returned unexpected value -->"))
        ELSE IF toString.m \in {"returns", "throws"}
        THEN IF toString.m = "throws" THEN Throw(toString.e)
             ELSE StringOf(toString.v)
        ELSE Return(Str("<!-- Diagram does not support toSVG/toString -->"))

\* Without the guard for a missing diagram, reading undefined.toSVG throws
\* inside the try block.
diagramToSvgString_noGuard(shape, diagram) ==
    LET attempt == IF Nullish(diagram)
                   THEN Throw(ErrorValue("TypeError",
                            "Cannot read properties of undefined (reading 'toSVG')"))
                   ELSE RenderAttempt(shape, diagram)
    IN  IF attempt.threw THEN RenderError(attempt.value) ELSE attempt

diagramToSvgString(shape, diagram) ==
    IF Falsy(diagram) THEN Return(Str("<!-- empty diagram -->"))
    ELSE LET attempt == RenderAttempt(shape, diagram)
         IN  IF attempt.threw THEN RenderError(attempt.value) ELSE attempt

----------------------------------------------------------------------------
(* ebnfDefinitions.ts: the EBNF table, own properties in source order *)

EBNF_DEFINITIONS ==
    <<
    <<"typedef-name",
      "typedef-name:\n    identifier\n    simple-template-id">>,
    <<"namespace-name",
      "namespace-name:\n    identifier\n    namespace-alias">>,
    <<"namespace-alias",
      "namespace-alias:\n    identifier">>,
    <<"class-name",
      "class-name:\n    identifier\n    simple-template-id">>,
    <<"enum-name",
      "enum-name:\n    identifier">>,
    <<"template-name",
      "template-name:\n    identifier">>,
    <<"n-char",
      "n-char:\n    any member of the translation character set except } or new-line">>,
    <<"n-char-sequence",
      "n-char-sequence:\n    n-char\n    n-char-sequence n-char">>,
    <<"named-universal-character",
      "named-universal-character:\n    \\N{ n-char-sequence }">>,
    <<"hex-quad",
      "hex-quad:\n    hexadecimal-digit hexadecimal-digit hexadecimal-digit hexadecimal-digit">>,
    <<"simple-hexadecimal-digit-sequence",
      "simple-hexadecimal-digit-sequence:\n    hexadecimal-digit\n    simple-hexadecimal-digit-sequence hexadecimal-digit">>,
    <<"universal-character-name",
      "universal-character-name:\n    \\u hex-quad\n    \\U hex-quad hex-quad\n    \\u{ simple-hexadecimal-digit-sequence }\n    named-universal-character">>,
    <<"preprocessing-token",
      "preprocessing-token:\n    header-name\n    import-keyword\n    module-keyword\n    export-keyword\n    identifier\n    pp-number\n    character-literal\n    user-defined-character-literal\n    string-literal\n    user-defined-string-literal\n    preprocessing-op-or-punc\n    each non-whitespace character that cannot be one of the above">>,
    <<"token",
      "token:\n    identifier\n    keyword\n    literal\n    operator-or-punctuator">>,
    <<"header-name",
      "header-name:\n    < h-char-sequence >\n    \" q-char-sequence \"">>,
    <<"h-char-sequence",
      "h-char-sequence:\n    h-char\n    h-char-sequence h-char">>,
    <<"h-char",
      "h-char:\n    any member of the translation character set except new-line and >">>,
    <<"q-char-sequence",
      "q-char-sequence:\n    q-char\n    q-char-sequence q-char">>,
    <<"q-char",
      "q-char:\n    any member of the translation character set except new-line and \"">>,
    <<"pp-number",
      "pp-number:\n    digit\n    . digit\n    pp-number identifier-continue\n    pp-number ' digit\n    pp-number ' nondigit\n    pp-number e sign\n    pp-number E sign\n    pp-number p sign\n    pp-number P sign\n    pp-number .">>,
    <<"identifier",
      "identifier:\n    identifier-start\n    identifier identifier-continue">>,
    <<"identifier-start",
      "identifier-start:\n    nondigit\n    an element of the translation character set with the Unicode property XID_Start">>,
    <<"identifier-continue",
      "identifier-continue:\n    digit\n    nondigit\n    an element of the translation character set with the Unicode property XID_Continue">>,
    <<"nondigit",
      "nondigit: one of\n    a b c d e f g h i j k l m\n    n o p q r s t u v w x y z\n    A B C D E F G H I J K L M\n    N O P Q R S T U V W X Y Z _">>,
    <<"digit",
      "digit: one of\n    0 1 2 3 4 5 6 7 8 9">>,
    <<"keyword",
      "keyword:\n    any identifier listed in Table 5\n    import-keyword\n    module-keyword\n    export-keyword">>,
    <<"preprocessing-op-or-punc",
      "preprocessing-op-or-punc:\n    preprocessing-operator\n    operator-or-punctuator">>,
    <<"preprocessing-operator",
      "preprocessing-operator: one of\n    # ## %: %:%:">>,
    <<"operator-or-punctuator",
      "operator-or-punctuator: one of\n    { } [ ] ( )\n    <: :> <% %> ; : ...\n    ? :: . .* -> ->* ~\n    ! + - * / % ^ & |\n    = += -= *= /= %= ^= &= |=\n    == != < > <= >= <=> && ||\n    << >> <<= >>= ++ -- ,\n    and or xor not bitand bitor compl\n    and_eq or_eq xor_eq not_eq">>,
    <<"literal",
      "literal:\n    integer-literal\n    character-literal\n    floating-point-literal\n    string-literal\n    boolean-literal\n    pointer-literal\n    user-defined-literal">>,
    <<"integer-literal",
      "integer-literal:\n    binary-literal integer-suffix_opt\n    octal-literal integer-suffix_opt\n    decimal-literal integer-suffix_opt\n    hexadecimal-literal integer-suffix_opt">>,
    <<"binary-literal",
      "binary-literal:\n    0b binary-digit\n    0B binary-digit\n    binary-literal '_opt binary-digit">>,
    <<"octal-literal",
      "octal-literal:\n    0\n    octal-literal '_opt octal-digit">>,
    <<"decimal-literal",
      "decimal-literal:\n    nonzero-digit\n    decimal-literal '_opt digit">>,
    <<"hexadecimal-literal",
      "hexadecimal-literal:\n    hexadecimal-prefix hexadecimal-digit-sequence">>,
    <<"binary-digit",
      "binary-digit: one of\n    0 1">>,
    <<"octal-digit",
      "octal-digit: one of\n    0 1 2 3 4 5 6 7">>,
    <<"nonzero-digit",
      "nonzero-digit: one of\n    1 2 3 4 5 6 7 8 9">>,
    <<"hexadecimal-prefix",
      "hexadecimal-prefix: one of\n    0x 0X">>,
    <<"hexadecimal-digit-sequence",
      "hexadecimal-digit-sequence:\n    hexadecimal-digit\n    hexadecimal-digit-sequence '_opt hexadecimal-digit">>,
    <<"hexadecimal-digit",
      "hexadecimal-digit: one of\n    0 1 2 3 4 5 6 7 8 9\n    a b c d e f\n    A B C D E F">>,
    <<"integer-suffix",
      "integer-suffix:\n    unsigned-suffix long-suffix_opt\n    unsigned-suffix long-long-suffix_opt\n    unsigned-suffix size-suffix_opt\n    long-suffix unsigned-suffix_opt\n    long-long-suffix unsigned-suffix_opt\n    size-suffix unsigned-suffix_opt">>,
    <<"unsigned-suffix",
      "unsigned-suffix: one of\n    u U">>,
    <<"long-suffix",
      "long-suffix: one of\n    l L">>,
    <<"long-long-suffix",
      "long-long-suffix: one of\n    ll LL">>,
    <<"size-suffix",
      "size-suffix: one of\n    z Z">>,
    <<"character-literal",
      "character-literal:\n    encoding-prefix_opt ' c-char-sequence '">>,
    <<"encoding-prefix",
      "encoding-prefix: one of\n    u8 u U L">>,
    <<"c-char-sequence",
      "c-char-sequence:\n    c-char\n    c-char-sequence c-char">>,
    <<"c-char",
      "c-char:\n    basic-c-char\n    escape-sequence\n    universal-character-name">>,
    <<"basic-c-char",
      "basic-c-char:\n    any member of the translation character set except ', \\, or new-line">>,
    <<"escape-sequence",
      "escape-sequence:\n    simple-escape-sequence\n    numeric-escape-sequence\n    conditional-escape-sequence">>,
    <<"simple-escape-sequence",
      "simple-escape-sequence:\n    \\ simple-escape-sequence-char">>,
    <<"simple-escape-sequence-char",
      "simple-escape-sequence-char: one of\n    ' \" ? \\ a b f n r t v">>,
    <<"numeric-escape-sequence",
      "numeric-escape-sequence:\n    octal-escape-sequence\n    hexadecimal-escape-sequence">>,
    <<"simple-octal-digit-sequence",
      "simple-octal-digit-sequence:\n    octal-digit\n    simple-octal-digit-sequence octal-digit">>,
    <<"octal-escape-sequence",
      "octal-escape-sequence:\n    \\ octal-digit\n    \\ octal-digit octal-digit\n    \\ octal-digit octal-digit octal-digit\n    \\o{ simple-octal-digit-sequence }">>,
    <<"hexadecimal-escape-sequence",
      "hexadecimal-escape-sequence:\n    \\x simple-hexadecimal-digit-sequence\n    \\x{ simple-hexadecimal-digit-sequence }">>,
    <<"conditional-escape-sequence",
      "conditional-escape-sequence:\n    \\ conditional-escape-sequence-char">>,
    <<"conditional-escape-sequence-char",
      "conditional-escape-sequence-char:\n    any member of the basic character set that is not an octal-digit,\n    a simple-escape-sequence-char, or the characters N, o, u, U, or x">>,
    <<"floating-point-literal",
      "floating-point-literal:\n    decimal-floating-point-literal\n    hexadecimal-floating-point-literal">>,
    <<"decimal-floating-point-literal",
      "decimal-floating-point-literal:\n    fractional-constant exponent-part_opt floating-point-suffix_opt\n    digit-sequence exponent-part floating-point-suffix_opt">>,
    <<"hexadecimal-floating-point-literal",
      "hexadecimal-floating-point-literal:\n    hexadecimal-prefix hexadecimal-fractional-constant binary-exponent-part floating-point-suffix_opt\n    hexadecimal-prefix hexadecimal-digit-sequence binary-exponent-part floating-point-suffix_opt">>,
    <<"fractional-constant",
      "fractional-constant:\n    digit-sequence_opt . digit-sequence\n    digit-sequence .">>,
    <<"hexadecimal-fractional-constant",
      "hexadecimal-fractional-constant:\n    hexadecimal-digit-sequence_opt . hexadecimal-digit-sequence\n    hexadecimal-digit-sequence .">>,
    <<"exponent-part",
      "exponent-part:\n    e sign_opt digit-sequence\n    E sign_opt digit-sequence">>,
    <<"binary-exponent-part",
      "binary-exponent-part:\n    p sign_opt digit-sequence\n    P sign_opt digit-sequence">>,
    <<"sign",
      "sign: one of\n    + -">>,
    <<"digit-sequence",
      "digit-sequence:\n    digit\n    digit-sequence '_opt digit">>,
    <<"floating-point-suffix",
      "floating-point-suffix: one of\n    f l f16 f32 f64 f128 bf16 F L F16 F32 F64 F128 BF16">>,
    <<"string-literal",
      "string-literal:\n    encoding-prefix_opt \" s-char-sequence_opt \"\n    encoding-prefix_opt R raw-string">>,
    <<"s-char-sequence",
      "s-char-sequence:\n    s-char\n    s-char-sequence s-char">>,
    <<"s-char",
      "s-char:\n    basic-s-char\n    escape-sequence\n    universal-character-name">>,
    <<"basic-s-char",
      "basic-s-char:\n    any member of the translation character set except \", \\, or new-line">>,
    <<"raw-string",
      "raw-string:\n    \" d-char-sequence_opt ( r-char-sequence_opt ) d-char-sequence_opt \"">>,
    <<"r-char-sequence",
      "r-char-sequence:\n    r-char\n    r-char-sequence r-char">>,
    <<"r-char",
      "r-char:\n    any member of the translation character set, except ) followed by\n    the initial d-char-sequence followed by \"">>,
    <<"d-char-sequence",
      "d-char-sequence:\n    d-char\n    d-char-sequence d-char">>,
    <<"d-char",
      "d-char:\n    any member of the basic character set except:\n    space, (, ), \\, horizontal tab, vertical tab, form feed, and new-line">>,
    <<"boolean-literal",
      "boolean-literal:\n    false\n    true">>,
    <<"pointer-literal",
      "pointer-literal:\n    nullptr">>,
    <<"user-defined-literal",
      "user-defined-literal:\n    user-defined-integer-literal\n    user-defined-floating-point-literal\n    user-defined-string-literal\n    user-defined-character-literal">>,
    <<"user-defined-integer-literal",
      "user-defined-integer-literal:\n    decimal-literal ud-suffix\n    octal-literal ud-suffix\n    hexadecimal-literal ud-suffix\n    binary-literal ud-suffix">>,
    <<"user-defined-floating-point-literal",
      "user-defined-floating-point-literal:\n    fractional-constant exponent-part_opt ud-suffix\n    digit-sequence exponent-part ud-suffix\n    hexadecimal-prefix hexadecimal-fractional-constant binary-exponent-part ud-suffix\n    hexadecimal-prefix hexadecimal-digit-sequence binary-exponent-part ud-suffix">>,
    <<"user-defined-string-literal",
      "user-defined-string-literal:\n    string-literal ud-suffix">>,
    <<"user-defined-character-literal",
      "user-defined-character-literal:\n    character-literal ud-suffix">>,
    <<"ud-suffix",
      "ud-suffix:\n    identifier">>,
    <<"translation-unit",
      "translation-unit:\n    declaration-seq_opt\n    global-module-fragment_opt module-declaration declaration-seq_opt private-module-fragment_opt">>,
    <<"primary-expression",
      "primary-expression:\n    literal\n    this\n    ( expression )\n    id-expression\n    lambda-expression\n    fold-expression\n    requires-expression">>,
    <<"id-expression",
      "id-expression:\n    unqualified-id\n    qualified-id">>,
    <<"unqualified-id",
      "unqualified-id:\n    identifier\n    operator-function-id\n    conversion-function-id\n    literal-operator-id\n    ~ type-name\n    ~ decltype-specifier\n    template-id">>,
    <<"qualified-id",
      "qualified-id:\n    nested-name-specifier template_opt unqualified-id">>,
    <<"nested-name-specifier",
      "nested-name-specifier:\n    ::\n    type-name ::\n    namespace-name ::\n    decltype-specifier ::\n    nested-name-specifier identifier ::\n    nested-name-specifier template_opt simple-template-id ::">>,
    <<"lambda-expression",
      "lambda-expression:\n    lambda-introducer attribute-specifier-seq_opt lambda-declarator compound-statement\n    lambda-introducer < template-parameter-list > requires-clause_opt attribute-specifier-seq_opt\n        lambda-declarator compound-statement">>,
    <<"lambda-introducer",
      "lambda-introducer:\n    [ lambda-capture_opt ]">>,
    <<"lambda-declarator",
      "lambda-declarator:\n    lambda-specifier-seq noexcept-specifier_opt attribute-specifier-seq_opt trailing-return-type_opt\n    noexcept-specifier attribute-specifier-seq_opt trailing-return-type_opt\n    trailing-return-type_opt\n    ( parameter-declaration-clause ) lambda-specifier-seq_opt noexcept-specifier_opt\n        attribute-specifier-seq_opt trailing-return-type_opt requires-clause_opt">>,
    <<"lambda-specifier",
      "lambda-specifier:\n    consteval\n    constexpr\n    mutable\n    static">>,
    <<"lambda-specifier-seq",
      "lambda-specifier-seq:\n    lambda-specifier\n    lambda-specifier lambda-specifier-seq">>,
    <<"lambda-capture",
      "lambda-capture:\n    capture-default\n    capture-list\n    capture-default , capture-list">>,
    <<"capture-default",
      "capture-default:\n    &\n    =">>,
    <<"capture-list",
      "capture-list:\n    capture\n    capture-list , capture">>,
    <<"capture",
      "capture:\n    simple-capture\n    init-capture">>,
    <<"simple-capture",
      "simple-capture:\n    identifier ..._opt\n    & identifier ..._opt\n    this\n    * this">>,
    <<"init-capture",
      "init-capture:\n    ..._opt identifier initializer\n    & ..._opt identifier initializer">>,
    <<"fold-expression",
      "fold-expression:\n    ( cast-expression fold-operator ... )\n    ( ... fold-operator cast-expression )\n    ( cast-expression fold-operator ... fold-operator cast-expression )">>,
    <<"fold-operator",
      "fold-operator: one of\n    + - * / % ^ & | << >>\n    += -= *= /= %= ^= &= |= <<= >>= =\n    == != < > <= >= && || , .* ->*">>,
    <<"requires-expression",
      "requires-expression:\n    requires requirement-parameter-list_opt requirement-body">>,
    <<"requirement-parameter-list",
      "requirement-parameter-list:\n    ( parameter-declaration-clause )">>,
    <<"requirement-body",
      "requirement-body:\n    { requirement-seq }">>,
    <<"requirement-seq",
      "requirement-seq:\n    requirement\n    requirement requirement-seq">>,
    <<"requirement",
      "requirement:\n    simple-requirement\n    type-requirement\n    compound-requirement\n    nested-requirement">>,
    <<"simple-requirement",
      "simple-requirement:\n    expression ;">>,
    <<"type-requirement",
      "type-requirement:\n    typename nested-name-specifier_opt type-name ;">>,
    <<"compound-requirement",
      "compound-requirement:\n    { expression } noexcept_opt return-type-requirement_opt ;">>,
    <<"return-type-requirement",
      "return-type-requirement:\n    -> type-constraint">>,
    <<"nested-requirement",
      "nested-requirement:\n    requires constraint-expression ;">>,
    <<"postfix-expression",
      "postfix-expression:\n    primary-expression\n    postfix-expression [ expression-list_opt ]\n    postfix-expression ( expression-list_opt )\n    simple-type-specifier ( expression-list_opt )\n    typename-specifier ( expression-list_opt )\n    simple-type-specifier braced-init-list\n    typename-specifier braced-init-list\n    postfix-expression . template_opt id-expression\n    postfix-expression -> template_opt id-expression\n    postfix-expression ++\n    postfix-expression --\n    dynamic_cast < type-id > ( expression )\n    static_cast < type-id > ( expression )\n    reinterpret_cast < type-id > ( expression )\n    const_cast < type-id > ( expression )\n    typeid ( expression )\n    typeid ( type-id )">>,
    <<"expression-list",
      "expression-list:\n    initializer-list">>,
    <<"unary-expression",
      "unary-expression:\n    postfix-expression\n    unary-operator cast-expression\n    ++ cast-expression\n    -- cast-expression\n    await-expression\n    sizeof unary-expression\n    sizeof ( type-id )\n    sizeof ... ( identifier )\n    alignof ( type-id )\n    noexcept-expression\n    new-expression\n    delete-expression">>,
    <<"unary-operator",
      "unary-operator: one of\n    * & + - ! ~">>,
    <<"await-expression",
      "await-expression:\n    co_await cast-expression">>,
    <<"noexcept-expression",
      "noexcept-expression:\n    noexcept ( expression )">>,
    <<"new-expression",
      "new-expression:\n    ::_opt new new-placement_opt new-type-id new-initializer_opt\n    ::_opt new new-placement_opt ( type-id ) new-initializer_opt">>,
    <<"new-placement",
      "new-placement:\n    ( expression-list )">>,
    <<"new-type-id",
      "new-type-id:\n    type-specifier-seq new-declarator_opt">>,
    <<"new-declarator",
      "new-declarator:\n    ptr-operator new-declarator_opt\n    noptr-new-declarator">>,
    <<"noptr-new-declarator",
      "noptr-new-declarator:\n    [ expression_opt ] attribute-specifier-seq_opt\n    noptr-new-declarator [ constant-expression ] attribute-specifier-seq_opt">>,
    <<"new-initializer",
      "new-initializer:\n    ( expression-list_opt )\n    braced-init-list">>,
    <<"delete-expression",
      "delete-expression:\n    ::_opt delete cast-expression\n    ::_opt delete [ ] cast-expression">>,
    <<"cast-expression",
      "cast-expression:\n    unary-expression\n    ( type-id ) cast-expression">>,
    <<"pm-expression",
      "pm-expression:\n    cast-expression\n    pm-expression .* cast-expression\n    pm-expression ->* cast-expression">>,
    <<"multiplicative-expression",
      "multiplicative-expression:\n    pm-expression\n    multiplicative-expression * pm-expression\n    multiplicative-expression / pm-expression\n    multiplicative-expression % pm-expression">>,
    <<"additive-expression",
      "additive-expression:\n    multiplicative-expression\n    additive-expression + multiplicative-expression\n    additive-expression - multiplicative-expression">>,
    <<"shift-expression",
      "shift-expression:\n    additive-expression\n    shift-expression << additive-expression\n    shift-expression >> additive-expression">>,
    <<"compare-expression",
      "compare-expression:\n    shift-expression\n    compare-expression <=> shift-expression">>,
    <<"relational-expression",
      "relational-expression:\n    compare-expression\n    relational-expression < compare-expression\n    relational-expression > compare-expression\n    relational-expression <= compare-expression\n    relational-expression >= compare-expression">>,
    <<"equality-expression",
      "equality-expression:\n    relational-expression\n    equality-expression == relational-expression\n    equality-expression != relational-expression">>,
    <<"and-expression",
      "and-expression:\n    equality-expression\n    and-expression & equality-expression">>,
    <<"exclusive-or-expression",
      "exclusive-or-expression:\n    and-expression\n    exclusive-or-expression ^ and-expression">>,
    <<"inclusive-or-expression",
      "inclusive-or-expression:\n    exclusive-or-expression\n    inclusive-or-expression | exclusive-or-expression">>,
    <<"logical-and-expression",
      "logical-and-expression:\n    inclusive-or-expression\n    logical-and-expression && inclusive-or-expression">>,
    <<"logical-or-expression",
      "logical-or-expression:\n    logical-and-expression\n    logical-or-expression || logical-and-expression">>,
    <<"conditional-expression",
      "conditional-expression:\n    logical-or-expression\n    logical-or-expression ? expression : assignment-expression">>,
    <<"yield-expression",
      "yield-expression:\n    co_yield assignment-expression\n    co_yield braced-init-list">>,
    <<"throw-expression",
      "throw-expression:\n    throw assignment-expression_opt">>,
    <<"assignment-expression",
      "assignment-expression:\n    conditional-expression\n    yield-expression\n    throw-expression\n    logical-or-expression assignment-operator initializer-clause">>,
    <<"assignment-operator",
      "assignment-operator: one of\n    = *= /= %= += -= >>= <<= &= ^= |=">>,
    <<"expression",
      "expression:\n    assignment-expression\n    expression , assignment-expression">>,
    <<"constant-expression",
      "constant-expression:\n    conditional-expression">>,
    <<"statement",
      "statement:\n    labeled-statement\n    attribute-specifier-seq_opt expression-statement\n    attribute-specifier-seq_opt compound-statement\n    attribute-specifier-seq_opt selection-statement\n    attribute-specifier-seq_opt iteration-statement\n    attribute-specifier-seq_opt jump-statement\n    declaration-statement\n    attribute-specifier-seq_opt try-block">>,
    <<"init-statement",
      "init-statement:\n    expression-statement\n    simple-declaration\n    alias-declaration">>,
    <<"condition",
      "condition:\n    expression\n    attribute-specifier-seq_opt decl-specifier-seq declarator brace-or-equal-initializer">>,
    <<"label",
      "label:\n    attribute-specifier-seq_opt identifier :\n    attribute-specifier-seq_opt case constant-expression :\n    attribute-specifier-seq_opt default :">>,
    <<"labeled-statement",
      "labeled-statement:\n    label statement">>,
    <<"expression-statement",
      "expression-statement:\n    expression_opt ;">>,
    <<"compound-statement",
      "compound-statement:\n    { statement-seq_opt label-seq_opt }">>,
    <<"statement-seq",
      "statement-seq:\n    statement\n    statement-seq statement">>,
    <<"label-seq",
      "label-seq:\n    label\n    label-seq label">>,
    <<"selection-statement",
      "selection-statement:\n    if constexpr_opt ( init-statement_opt condition ) statement\n    if constexpr_opt ( init-statement_opt condition ) statement else statement\n    if !_opt consteval compound-statement\n    if !_opt consteval compound-statement else statement\n    switch ( init-statement_opt condition ) statement">>,
    <<"iteration-statement",
      "iteration-statement:\n    while ( condition ) statement\n    do statement while ( expression ) ;\n    for ( init-statement condition_opt ; expression_opt ) statement\n    for ( init-statement_opt for-range-declaration : for-range-initializer ) statement">>,
    <<"for-range-declaration",
      "for-range-declaration:\n    attribute-specifier-seq_opt decl-specifier-seq declarator\n    attribute-specifier-seq_opt decl-specifier-seq ref-qualifier_opt [ identifier-list ]">>,
    <<"for-range-initializer",
      "for-range-initializer:\n    expr-or-braced-init-list">>,
    <<"jump-statement",
      "jump-statement:\n    break ;\n    continue ;\n    return expr-or-braced-init-list_opt ;\n    coroutine-return-statement\n    goto identifier ;">>,
    <<"coroutine-return-statement",
      "coroutine-return-statement:\n    co_return expr-or-braced-init-list_opt ;">>,
    <<"declaration-statement",
      "declaration-statement:\n    block-declaration">>,
    <<"declaration-seq",
      "declaration-seq:\n    declaration\n    declaration-seq declaration">>,
    <<"declaration",
      "declaration:\n    name-declaration\n    special-declaration">>,
    <<"name-declaration",
      "name-declaration:\n    block-declaration\n    nodeclspec-function-declaration\n    function-definition\n    template-declaration\n    deduction-guide\n    linkage-specification\n    namespace-definition\n    empty-declaration\n    attribute-declaration\n    module-import-declaration">>,
    <<"special-declaration",
      "special-declaration:\n    explicit-instantiation\n    explicit-specialization\n    export-declaration">>,
    <<"block-declaration",
      "block-declaration:\n    simple-declaration\n    asm-declaration\n    namespace-alias-definition\n    using-declaration\n    using-enum-declaration\n    using-directive\n    static_assert-declaration\n    alias-declaration\n    opaque-enum-declaration">>,
    <<"nodeclspec-function-declaration",
      "nodeclspec-function-declaration:\n    attribute-specifier-seq_opt declarator ;">>,
    <<"alias-declaration",
      "alias-declaration:\n    using identifier attribute-specifier-seq_opt = defining-type-id ;">>,
    <<"simple-declaration",
      "simple-declaration:\n    decl-specifier-seq init-declarator-list_opt ;\n    attribute-specifier-seq decl-specifier-seq init-declarator-list ;\n    attribute-specifier-seq_opt decl-specifier-seq ref-qualifier_opt [ identifier-list ] initializer ;">>,
    <<"static_assert-declaration",
      "static_assert-declaration:\n    static_assert ( constant-expression ) ;\n    static_assert ( constant-expression , string-literal ) ;">>,
    <<"empty-declaration",
      "empty-declaration:\n    ;">>,
    <<"attribute-declaration",
      "attribute-declaration:\n    attribute-specifier-seq ;">>,
    <<"decl-specifier",
      "decl-specifier:\n    storage-class-specifier\n    defining-type-specifier\n    function-specifier\n    friend\n    typedef\n    constexpr\n    consteval\n    constinit\n    inline">>,
    <<"decl-specifier-seq",
      "decl-specifier-seq:\n    decl-specifier attribute-specifier-seq_opt\n    decl-specifier decl-specifier-seq">>,
    <<"storage-class-specifier",
      "storage-class-specifier:\n    static\n    thread_local\n    extern\n    mutable">>,
    <<"function-specifier",
      "function-specifier:\n    virtual\n    explicit-specifier">>,
    <<"explicit-specifier",
      "explicit-specifier:\n    explicit ( constant-expression )\n    explicit">>,
    <<"type-specifier",
      "type-specifier:\n    simple-type-specifier\n    elaborated-type-specifier\n    typename-specifier\n    cv-qualifier">>,
    <<"type-specifier-seq",
      "type-specifier-seq:\n    type-specifier attribute-specifier-seq_opt\n    type-specifier type-specifier-seq">>,
    <<"defining-type-specifier",
      "defining-type-specifier:\n    type-specifier\n    class-specifier\n    enum-specifier">>,
    <<"defining-type-specifier-seq",
      "defining-type-specifier-seq:\n    defining-type-specifier attribute-specifier-seq_opt\n    defining-type-specifier defining-type-specifier-seq">>,
    <<"simple-type-specifier",
      "simple-type-specifier:\n    nested-name-specifier_opt type-name\n    nested-name-specifier template simple-template-id\n    decltype-specifier\n    placeholder-type-specifier\n    nested-name-specifier_opt template-name\n    char\n    char8_t\n    char16_t\n    char32_t\n    wchar_t\n    bool\n    short\n    int\n    long\n    signed\n    unsigned\n    float\n    double\n    void">>,
    <<"type-name",
      "type-name:\n    class-name\n    enum-name\n    typedef-name">>,
    <<"elaborated-type-specifier",
      "elaborated-type-specifier:\n    class-key attribute-specifier-seq_opt nested-name-specifier_opt identifier\n    class-key simple-template-id\n    class-key nested-name-specifier template_opt simple-template-id\n    enum nested-name-specifier_opt identifier">>,
    <<"decltype-specifier",
      "decltype-specifier:\n    decltype ( expression )">>,
    <<"placeholder-type-specifier",
      "placeholder-type-specifier:\n    type-constraint_opt auto\n    type-constraint_opt decltype ( auto )">>,
    <<"init-declarator-list",
      "init-declarator-list:\n    init-declarator\n    init-declarator-list , init-declarator">>,
    <<"init-declarator",
      "init-declarator:\n    declarator initializer_opt\n    declarator requires-clause">>,
    <<"declarator",
      "declarator:\n    ptr-declarator\n    noptr-declarator parameters-and-qualifiers trailing-return-type">>,
    <<"ptr-declarator",
      "ptr-declarator:\n    noptr-declarator\n    ptr-operator ptr-declarator">>,
    <<"noptr-declarator",
      "noptr-declarator:\n    declarator-id attribute-specifier-seq_opt\n    noptr-declarator parameters-and-qualifiers\n    noptr-declarator [ constant-expression_opt ] attribute-specifier-seq_opt\n    ( ptr-declarator )">>,
    <<"parameters-and-qualifiers",
      "parameters-and-qualifiers:\n    ( parameter-declaration-clause ) cv-qualifier-seq_opt\n        ref-qualifier_opt noexcept-specifier_opt attribute-specifier-seq_opt">>,
    <<"trailing-return-type",
      "trailing-return-type:\n    -> type-id">>,
    <<"ptr-operator",
      "ptr-operator:\n    * attribute-specifier-seq_opt cv-qualifier-seq_opt\n    & attribute-specifier-seq_opt\n    && attribute-specifier-seq_opt\n    nested-name-specifier * attribute-specifier-seq_opt cv-qualifier-seq_opt">>,
    <<"cv-qualifier-seq",
      "cv-qualifier-seq:\n    cv-qualifier cv-qualifier-seq_opt">>,
    <<"cv-qualifier",
      "cv-qualifier:\n    const\n    volatile">>,
    <<"ref-qualifier",
      "ref-qualifier:\n    &\n    &&">>,
    <<"declarator-id",
      "declarator-id:\n    ..._opt id-expression">>,
    <<"type-id",
      "type-id:\n    type-specifier-seq abstract-declarator_opt">>,
    <<"defining-type-id",
      "defining-type-id:\n    defining-type-specifier-seq abstract-declarator_opt">>,
    <<"abstract-declarator",
      "abstract-declarator:\n    ptr-abstract-declarator\n    noptr-abstract-declarator_opt parameters-and-qualifiers trailing-return-type\n    abstract-pack-declarator">>,
    <<"ptr-abstract-declarator",
      "ptr-abstract-declarator:\n    noptr-abstract-declarator\n    ptr-operator ptr-abstract-declarator_opt">>,
    <<"noptr-abstract-declarator",
      "noptr-abstract-declarator:\n    noptr-abstract-declarator_opt parameters-and-qualifiers\n    noptr-abstract-declarator_opt [ constant-expression_opt ] attribute-specifier-seq_opt\n    ( ptr-abstract-declarator )">>,
    <<"abstract-pack-declarator",
      "abstract-pack-declarator:\n    noptr-abstract-pack-declarator\n    ptr-operator abstract-pack-declarator">>,
    <<"noptr-abstract-pack-declarator",
      "noptr-abstract-pack-declarator:\n    noptr-abstract-pack-declarator parameters-and-qualifiers\n    noptr-abstract-pack-declarator [ constant-expression_opt ] attribute-specifier-seq_opt\n    ...">>,
    <<"parameter-declaration-clause",
      "parameter-declaration-clause:\n    parameter-declaration-list_opt ..._opt\n    parameter-declaration-list , ...">>,
    <<"parameter-declaration-list",
      "parameter-declaration-list:\n    parameter-declaration\n    parameter-declaration-list , parameter-declaration">>,
    <<"parameter-declaration",
      "parameter-declaration:\n    attribute-specifier-seq_opt this_opt decl-specifier-seq declarator\n    attribute-specifier-seq_opt decl-specifier-seq declarator = initializer-clause\n    attribute-specifier-seq_opt this_opt decl-specifier-seq abstract-declarator_opt\n    attribute-specifier-seq_opt decl-specifier-seq abstract-declarator_opt = initializer-clause">>,
    <<"initializer",
      "initializer:\n    brace-or-equal-initializer\n    ( expression-list )">>,
    <<"brace-or-equal-initializer",
      "brace-or-equal-initializer:\n    = initializer-clause\n    braced-init-list">>,
    <<"initializer-clause",
      "initializer-clause:\n    assignment-expression\n    braced-init-list">>,
    <<"braced-init-list",
      "braced-init-list:\n    { initializer-list ,_opt }\n    { designated-initializer-list ,_opt }\n    { }">>,
    <<"initializer-list",
      "initializer-list:\n    initializer-clause ..._opt\n    initializer-list , initializer-clause ..._opt">>,
    <<"designated-initializer-list",
      "designated-initializer-list:\n    designated-initializer-clause\n    designated-initializer-list , designated-initializer-clause">>,
    <<"designated-initializer-clause",
      "designated-initializer-clause:\n    designator brace-or-equal-initializer">>,
    <<"designator",
      "designator:\n    . identifier">>,
    <<"expr-or-braced-init-list",
      "expr-or-braced-init-list:\n    expression\n    braced-init-list">>,
    <<"function-definition",
      "function-definition:\n    attribute-specifier-seq_opt decl-specifier-seq_opt declarator virt-specifier-seq_opt function-body\n    attribute-specifier-seq_opt decl-specifier-seq_opt declarator requires-clause function-body">>,
    <<"function-body",
      "function-body:\n    ctor-initializer_opt compound-statement\n    function-try-block\n    = default ;\n    = delete ;">>,
    <<"enum-specifier",
      "enum-specifier:\n    enum-head { enumerator-list_opt }\n    enum-head { enumerator-list , }">>,
    <<"enum-head",
      "enum-head:\n    enum-key attribute-specifier-seq_opt enum-head-name_opt enum-base_opt">>,
    <<"enum-head-name",
      "enum-head-name:\n    nested-name-specifier_opt identifier">>,
    <<"opaque-enum-declaration",
      "opaque-enum-declaration:\n    enum-key attribute-specifier-seq_opt enum-head-name enum-base_opt ;">>,
    <<"enum-key",
      "enum-key:\n    enum\n    enum class\n    enum struct">>,
    <<"enum-base",
      "enum-base:\n    : type-specifier-seq">>,
    <<"enumerator-list",
      "enumerator-list:\n    enumerator-definition\n    enumerator-list , enumerator-definition">>,
    <<"enumerator-definition",
      "enumerator-definition:\n    enumerator\n    enumerator = constant-expression">>,
    <<"enumerator",
      "enumerator:\n    identifier attribute-specifier-seq_opt">>,
    <<"using-enum-declaration",
      "using-enum-declaration:\n    using enum using-enum-declarator ;">>,
    <<"using-enum-declarator",
      "using-enum-declarator:\n    nested-name-specifier_opt identifier\n    nested-name-specifier_opt simple-template-id">>,
    <<"namespace-definition",
      "namespace-definition:\n    named-namespace-definition\n    unnamed-namespace-definition\n    nested-namespace-definition">>,
    <<"named-namespace-definition",
      "named-namespace-definition:\n    inline_opt namespace attribute-specifier-seq_opt identifier { namespace-body }">>,
    <<"unnamed-namespace-definition",
      "unnamed-namespace-definition:\n    inline_opt namespace attribute-specifier-seq_opt { namespace-body }">>,
    <<"nested-namespace-definition",
      "nested-namespace-definition:\n    namespace enclosing-namespace-specifier :: inline_opt identifier { namespace-body }">>,
    <<"enclosing-namespace-specifier",
      "enclosing-namespace-specifier:\n    identifier\n    enclosing-namespace-specifier :: inline_opt identifier">>,
    <<"namespace-body",
      "namespace-body:\n    declaration-seq_opt">>,
    <<"namespace-alias-definition",
      "namespace-alias-definition:\n    namespace identifier = qualified-namespace-specifier ;">>,
    <<"qualified-namespace-specifier",
      "qualified-namespace-specifier:\n    nested-name-specifier_opt namespace-name">>,
    <<"using-directive",
      "using-directive:\n    attribute-specifier-seq_opt using namespace nested-name-specifier_opt namespace-name ;">>,
    <<"using-declaration",
      "using-declaration:\n    using using-declarator-list ;">>,
    <<"using-declarator-list",
      "using-declarator-list:\n    using-declarator ..._opt\n    using-declarator-list , using-declarator ..._opt">>,
    <<"using-declarator",
      "using-declarator:\n    typename_opt nested-name-specifier unqualified-id">>,
    <<"asm-declaration",
      "asm-declaration:\n    attribute-specifier-seq_opt asm ( string-literal ) ;">>,
    <<"linkage-specification",
      "linkage-specification:\n    extern string-literal { declaration-seq_opt }\n    extern string-literal name-declaration">>,
    <<"attribute-specifier-seq",
      "attribute-specifier-seq:\n    attribute-specifier-seq_opt attribute-specifier">>,
    <<"attribute-specifier",
      "attribute-specifier:\n    [ [ attribute-using-prefix_opt attribute-list ] ]\n    alignment-specifier">>,
    <<"alignment-specifier",
      "alignment-specifier:\n    alignas ( type-id ..._opt )\n    alignas ( constant-expression ..._opt )">>,
    <<"attribute-using-prefix",
      "attribute-using-prefix:\n    using attribute-namespace :">>,
    <<"attribute-list",
      "attribute-list:\n    attribute_opt\n    attribute-list , attribute_opt\n    attribute ...\n    attribute-list , attribute ...">>,
    <<"attribute",
      "attribute:\n    attribute-token attribute-argument-clause_opt">>,
    <<"attribute-token",
      "attribute-token:\n    identifier\n    attribute-scoped-token">>,
    <<"attribute-scoped-token",
      "attribute-scoped-token:\n    attribute-namespace :: identifier">>,
    <<"attribute-namespace",
      "attribute-namespace:\n    identifier">>,
    <<"attribute-argument-clause",
      "attribute-argument-clause:\n    ( balanced-token-seq_opt )">>,
    <<"balanced-token-seq",
      "balanced-token-seq:\n    balanced-token\n    balanced-token-seq balanced-token">>,
    <<"balanced-token",
      "balanced-token:\n    ( balanced-token-seq_opt )\n    [ balanced-token-seq_opt ]\n    { balanced-token-seq_opt }\n    any token other than a parenthesis, a bracket, or a brace">>,
    <<"module-declaration",
      "module-declaration:\n    export-keyword_opt module-keyword module-name module-partition_opt attribute-specifier-seq_opt ;">>,
    <<"module-name",
      "module-name:\n    module-name-qualifier_opt identifier">>,
    <<"module-partition",
      "module-partition:\n    : module-name-qualifier_opt identifier">>,
    <<"module-name-qualifier",
      "module-name-qualifier:\n    identifier .\n    module-name-qualifier identifier .">>,
    <<"export-declaration",
      "export-declaration:\n    export name-declaration\n    export { declaration-seq_opt }\n    export-keyword module-import-declaration">>,
    <<"module-import-declaration",
      "module-import-declaration:\n    import-keyword module-name attribute-specifier-seq_opt ;\n    import-keyword module-partition attribute-specifier-seq_opt ;\n    import-keyword header-name attribute-specifier-seq_opt ;">>,
    <<"global-module-fragment",
      "global-module-fragment:\n    module-keyword ; declaration-seq_opt">>,
    <<"private-module-fragment",
      "private-module-fragment:\n    module-keyword : private ; declaration-seq_opt">>,
    <<"class-specifier",
      "class-specifier:\n    class-head { member-specification_opt }">>,
    <<"class-head",
      "class-head:\n    class-key attribute-specifier-seq_opt class-head-name class-virt-specifier_opt base-clause_opt\n    class-key attribute-specifier-seq_opt base-clause_opt">>,
    <<"class-head-name",
      "class-head-name:\n    nested-name-specifier_opt class-name">>,
    <<"class-virt-specifier",
      "class-virt-specifier:\n    final">>,
    <<"class-key",
      "class-key:\n    class\n    struct\n    union">>,
    <<"member-specification",
      "member-specification:\n    member-declaration member-specification_opt\n    access-specifier : member-specification_opt">>,
    <<"member-declaration",
      "member-declaration:\n    attribute-specifier-seq_opt decl-specifier-seq_opt member-declarator-list_opt ;\n    function-definition\n    using-declaration\n    using-enum-declaration\n    static_assert-declaration\n    template-declaration\n    explicit-specialization\n    deduction-guide\n    alias-declaration\n    opaque-enum-declaration\n    empty-declaration">>,
    <<"member-declarator-list",
      "member-declarator-list:\n    member-declarator\n    member-declarator-list , member-declarator">>,
    <<"member-declarator",
      "member-declarator:\n    declarator virt-specifier-seq_opt pure-specifier_opt\n    declarator requires-clause\n    declarator brace-or-equal-initializer_opt\n    identifier_opt attribute-specifier-seq_opt : constant-expression brace-or-equal-initializer_opt">>,
    <<"virt-specifier-seq",
      "virt-specifier-seq:\n    virt-specifier\n    virt-specifier-seq virt-specifier">>,
    <<"virt-specifier",
      "virt-specifier:\n    override\n    final">>,
    <<"pure-specifier",
      "pure-specifier:\n    = 0">>,
    <<"conversion-function-id",
      "conversion-function-id:\n    operator conversion-type-id">>,
    <<"conversion-type-id",
      "conversion-type-id:\n    type-specifier-seq conversion-declarator_opt">>,
    <<"conversion-declarator",
      "conversion-declarator:\n    ptr-operator conversion-declarator_opt">>,
    <<"base-clause",
      "base-clause:\n    : base-specifier-list">>,
    <<"base-specifier-list",
      "base-specifier-list:\n    base-specifier ..._opt\n    base-specifier-list , base-specifier ..._opt">>,
    <<"base-specifier",
      "base-specifier:\n    attribute-specifier-seq_opt class-or-decltype\n    attribute-specifier-seq_opt virtual access-specifier_opt class-or-decltype\n    attribute-specifier-seq_opt access-specifier virtual_opt class-or-decltype">>,
    <<"class-or-decltype",
      "class-or-decltype:\n    nested-name-specifier_opt type-name\n    nested-name-specifier template simple-template-id\n    decltype-specifier">>,
    <<"access-specifier",
      "access-specifier:\n    private\n    protected\n    public">>,
    <<"ctor-initializer",
      "ctor-initializer:\n    : mem-initializer-list">>,
    <<"mem-initializer-list",
      "mem-initializer-list:\n    mem-initializer ..._opt\n    mem-initializer-list , mem-initializer ..._opt">>,
    <<"mem-initializer",
      "mem-initializer:\n    mem-initializer-id ( expression-list_opt )\n    mem-initializer-id braced-init-list">>,
    <<"mem-initializer-id",
      "mem-initializer-id:\n    class-or-decltype\n    identifier">>,
    <<"operator-function-id",
      "operator-function-id:\n    operator operator">>,
    <<"operator",
      "operator: one of\n    new delete new[] delete[] co_await ( ) [ ] -> ->*\n    ~ ! + - * / % ^ &\n    | = += -= *= /= %= ^= &=\n    |= == != < > <= >= <=> &&\n    || << >> <<= >>= ++ -- ,">>,
    <<"literal-operator-id",
      "literal-operator-id:\n    operator string-literal identifier\n    operator user-defined-string-literal">>,
    <<"template-declaration",
      "template-declaration:\n    template-head declaration\n    template-head concept-definition">>,
    <<"template-head",
      "template-head:\n    template < template-parameter-list > requires-clause_opt">>,
    <<"template-parameter-list",
      "template-parameter-list:\n    template-parameter\n    template-parameter-list , template-parameter">>,
    <<"requires-clause",
      "requires-clause:\n    requires constraint-logical-or-expression">>,
    <<"constraint-logical-or-expression",
      "constraint-logical-or-expression:\n    constraint-logical-and-expression\n    constraint-logical-or-expression || constraint-logical-and-expression">>,
    <<"constraint-logical-and-expression",
      "constraint-logical-and-expression:\n    primary-expression\n    constraint-logical-and-expression && primary-expression">>,
    <<"template-parameter",
      "template-parameter:\n    type-parameter\n    parameter-declaration">>,
    <<"type-parameter",
      "type-parameter:\n    type-parameter-key ..._opt identifier_opt\n    type-parameter-key identifier_opt = type-id\n    type-constraint ..._opt identifier_opt\n    type-constraint identifier_opt = type-id\n    template-head type-parameter-key ..._opt identifier_opt\n    template-head type-parameter-key identifier_opt = id-expression">>,
    <<"type-parameter-key",
      "type-parameter-key:\n    class\n    typename">>,
    <<"type-constraint",
      "type-constraint:\n    nested-name-specifier_opt concept-name\n    nested-name-specifier_opt concept-name < template-argument-list_opt >">>,
    <<"simple-template-id",
      "simple-template-id:\n    template-name < template-argument-list_opt >">>,
    <<"template-id",
      "template-id:\n    simple-template-id\n    operator-function-id < template-argument-list_opt >\n    literal-operator-id < template-argument-list_opt >">>,
    <<"template-argument-list",
      "template-argument-list:\n    template-argument ..._opt\n    template-argument-list , template-argument ..._opt">>,
    <<"template-argument",
      "template-argument:\n    constant-expression\n    type-id\n    id-expression">>,
    <<"constraint-expression",
      "constraint-expression:\n    logical-or-expression">>,
    <<"deduction-guide",
      "deduction-guide:\n    explicit-specifier_opt template-name ( parameter-declaration-clause ) -> simple-template-id ;">>,
    <<"concept-definition",
      "concept-definition:\n    concept concept-name attribute-specifier-seq_opt = constraint-expression ;">>,
    <<"concept-name",
      "concept-name:\n    identifier">>,
    <<"typename-specifier",
      "typename-specifier:\n    typename nested-name-specifier identifier\n    typename nested-name-specifier template_opt simple-template-id">>,
    <<"explicit-instantiation",
      "explicit-instantiation:\n    extern_opt template declaration">>,
    <<"explicit-specialization",
      "explicit-specialization:\n    template < > declaration">>,
    <<"try-block",
      "try-block:\n    try compound-statement handler-seq">>,
    <<"function-try-block",
      "function-try-block:\n    try ctor-initializer_opt compound-statement handler-seq">>,
    <<"handler-seq",
      "handler-seq:\n    handler handler-seq_opt">>,
    <<"handler",
      "handler:\n    catch ( exception-declaration ) compound-statement">>,
    <<"exception-declaration",
      "exception-declaration:\n    attribute-specifier-seq_opt type-specifier-seq declarator\n    attribute-specifier-seq_opt type-specifier-seq abstract-declarator_opt\n    ...">>,
    <<"noexcept-specifier",
      "noexcept-specifier:\n    noexcept ( constant-expression )\n    noexcept">>,
    <<"preprocessing-file",
      "preprocessing-file:\n    group_opt\n    module-file">>,
    <<"module-file",
      "module-file:\n    pp-global-module-fragment_opt pp-module group_opt pp-private-module-fragment_opt">>,
    <<"pp-global-module-fragment",
      "pp-global-module-fragment:\n    module ; new-line group_opt">>,
    <<"pp-private-module-fragment",
      "pp-private-module-fragment:\n    module : private ; new-line group_opt">>,
    <<"group",
      "group:\n    group-part\n    group group-part">>,
    <<"group-part",
      "group-part:\n    control-line\n    if-section\n    text-line\n    # conditionally-supported-directive">>,
    <<"control-line",
      "control-line:\n    # include pp-tokens new-line\n    pp-import\n    # define identifier replacement-list new-line\n    # define identifier lparen identifier-list_opt ) replacement-list new-line\n    # define identifier lparen ... ) replacement-list new-line\n    # define identifier lparen identifier-list , ... ) replacement-list new-line\n    # undef identifier new-line\n    # line pp-tokens new-line\n    # error pp-tokens_opt new-line\n    # warning pp-tokens_opt new-line\n    # pragma pp-tokens_opt new-line\n    # new-line">>,
    <<"if-section",
      "if-section:\n    if-group elif-groups_opt else-group_opt endif-line">>,
    <<"if-group",
      "if-group:\n    # if constant-expression new-line group_opt\n    # ifdef identifier new-line group_opt\n    # ifndef identifier new-line group_opt">>,
    <<"elif-groups",
      "elif-groups:\n    elif-group\n    elif-groups elif-group">>,
    <<"elif-group",
      "elif-group:\n    # elif constant-expression new-line group_opt\n    # elifdef identifier new-line group_opt\n    # elifndef identifier new-line group_opt">>,
    <<"else-group",
      "else-group:\n    # else new-line group_opt">>,
    <<"endif-line",
      "endif-line:\n    # endif new-line">>,
    <<"text-line",
      "text-line:\n    pp-tokens_opt new-line">>,
    <<"conditionally-supported-directive",
      "conditionally-supported-directive:\n    pp-tokens new-line">>,
    <<"lparen",
      "lparen:\n    a ( character not immediately preceded by whitespace">>,
    <<"identifier-list",
      "identifier-list:\n    identifier\n    identifier-list , identifier">>,
    <<"replacement-list",
      "replacement-list:\n    pp-tokens_opt">>,
    <<"pp-tokens",
      "pp-tokens:\n    preprocessing-token\n    pp-tokens preprocessing-token">>,
    <<"new-line",
      "new-line:\n    the new-line character">>,
    <<"defined-macro-expression",
      "defined-macro-expression:\n    defined identifier\n    defined ( identifier )">>,
    <<"h-preprocessing-token",
      "h-preprocessing-token:\n    any preprocessing-token other than >">>,
    <<"h-pp-tokens",
      "h-pp-tokens:\n    h-preprocessing-token\n    h-pp-tokens h-preprocessing-token">>,
    <<"header-name-tokens",
      "header-name-tokens:\n    string-literal\n    < h-pp-tokens >">>,
    <<"has-include-expression",
      "has-include-expression:\n    __has_include ( header-name )\n    __has_include ( header-name-tokens )">>,
    <<"has-attribute-expression",
      "has-attribute-expression:\n    __has_cpp_attribute ( pp-tokens )">>,
    <<"pp-module",
      "pp-module:\n    export_opt module pp-tokens_opt ; new-line">>,
    <<"pp-import",
      "pp-import:\n    export_opt import header-name pp-tokens_opt ; new-line\n    export_opt import header-name-tokens pp-tokens_opt ; new-line\n    export_opt import pp-tokens ; new-line">>,
    <<"va-opt-replacement",
      "va-opt-replacement:\n    __VA_OPT__ ( pp-tokens_opt )">>
    >>

----------------------------------------------------------------------------
(* cppGrammar.ts, initial copy: rules.set statements and section tables *)

rulesSetCalls_initial ==
    <<
    Reg("typedef-name", 43,
        Diagram(<<Choice(0, <<NT("identifier"), NT("simple-template-id")>>)>>)),
    Reg("namespace-name", 52,
        Diagram(<<Choice(0, <<NT("identifier"), NT("namespace-alias")>>)>>)),
    Reg("namespace-alias", 61,
        Diagram(<<NT("identifier")>>)),
    Reg("class-name", 65,
        Diagram(<<Choice(0, <<NT("identifier"), NT("simple-template-id")>>)>>)),
    Reg("enum-name", 74,
        Diagram(<<NT("identifier")>>)),
    Reg("template-name", 78,
        Diagram(<<NT("identifier")>>)),
    Reg("n-char", 84,
        Diagram(<<Comment("any char except } or new-line")>>)),
    Reg("n-char-sequence", 88,
        Diagram(<<OneOrMore(NT("n-char"))>>)),
    Reg("named-universal-character", 92,
        Diagram(<<Sequence(<<T("\\N{"), NT("n-char-sequence"), T("}")>>)>>)),
    Reg("hex-quad", 98,
        Diagram(<<Sequence(<<NT("hexadecimal-digit"), NT("hexadecimal-digit"), NT("hexadecimal-digit"), NT("hexadecimal-digit")>>)>>)),
    Reg("simple-hexadecimal-digit-sequence", 109,
        Diagram(<<OneOrMore(NT("hexadecimal-digit"))>>)),
    Reg("universal-character-name", 113,
        Diagram(<<Choice(0, <<Sequence(<<T("\\u"), NT("hex-quad")>>), Sequence(<<T("\\U"), NT("hex-quad"), NT("hex-quad")>>), Sequence(<<T("\\u{"), NT("simple-hexadecimal-digit-sequence"), T("}")>>), NT("named-universal-character")>>)>>)),
    Reg("preprocessing-token", 124,
        Diagram(<<Choice(0, <<NT("header-name"), NT("import-keyword"), NT("module-keyword"), NT("export-keyword"), NT("identifier"), NT("pp-number"), NT("character-literal"), NT("user-defined-character-literal"), NT("string-literal"), NT("user-defined-string-literal"), NT("preprocessing-op-or-punc"), Comment("non-whitespace char")>>)>>)),
    Reg("token", 143,
        Diagram(<<Choice(0, <<NT("identifier"), NT("keyword"), NT("literal"), NT("operator-or-punctuator")>>)>>)),
    Reg("header-name", 154,
        Diagram(<<Choice(0, <<Sequence(<<T("<"), NT("h-char-sequence"), T(">")>>), Sequence(<<T("\""), NT("q-char-sequence"), T("\"")>>)>>)>>)),
    Reg("h-char-sequence", 163,
        Diagram(<<OneOrMore(NT("h-char"))>>)),
    Reg("h-char", 167,
        Diagram(<<Comment("any char except new-line or >")>>)),
    Reg("q-char-sequence", 171,
        Diagram(<<OneOrMore(NT("q-char"))>>)),
    Reg("q-char", 175,
        Diagram(<<Comment("any char except new-line or \"")>>)),
    Reg("pp-number", 179,
        Diagram(<<Sequence(<<Choice(0, <<NT("digit"), Sequence(<<T("."), NT("digit")>>)>>), ZeroOrMore(Choice(0, <<NT("identifier-continue"), Sequence(<<T("'"), NT("digit")>>), Sequence(<<T("'"), NT("nondigit")>>), Sequence(<<Choice(0, <<T("e"), T("E"), T("p"), T("P")>>), NT("sign")>>), T(".")>>))>>)>>)),
    Reg("identifier", 196,
        Diagram(<<Sequence(<<NT("identifier-start"), ZeroOrMore(NT("identifier-continue"))>>)>>)),
    Reg("identifier-start", 205,
        Diagram(<<Choice(0, <<NT("nondigit"), Comment("Unicode XID_Start")>>)>>)),
    Reg("identifier-continue", 214,
        Diagram(<<Choice(0, <<NT("digit"), NT("nondigit"), Comment("Unicode XID_Continue")>>)>>)),
    Reg("nondigit", 224,
        Diagram(<<Choice(0, <<T("a-z"), T("A-Z"), T("_")>>)>>)),
    Reg("digit", 232,
        Diagram(<<Choice(0, <<T("0"), T("1"), T("2"), T("3"), T("4"), T("5"), T("6"), T("7"), T("8"), T("9")>>)>>)),
    Reg("keyword", 238,
        Diagram(<<Choice(0, <<Comment("any identifier in Table 5"), NT("import-keyword"), NT("module-keyword"), NT("export-keyword")>>)>>)),
    Reg("preprocessing-op-or-punc", 249,
        Diagram(<<Choice(0, <<NT("preprocessing-operator"), NT("operator-or-punctuator")>>)>>)),
    Reg("preprocessing-operator", 258,
        Diagram(<<Choice(0, <<T("#"), T("##"), T("%:"), T("%:%:")>>)>>)),
    Reg("operator-or-punctuator", 264,
        Diagram(<<Choice(0, <<T("{"), T("}"), T("["), T("]"), T("("), T(")"), T("<:"), T(":>"), T("<%"), T("%>"), T(";"), T(":"), T("..."), T("?"), T("::"), T("."), T(".*"), T("->"), T("->*"), T("~"), T("!"), T("+"), T("-"), T("*"), T("/"), T("%"), T("^"), T("&"), T("|"), T("="), T("+="), T("-="), T("*="), T("/="), T("%="), T("^="), T("&="), T("|="), T("=="), T("!="), T("<"), T(">"), T("<="), T(">="), T("<=>"), T("&&"), T("||"), T("<<"), T(">>"), T("<<="), T(">>="), T("++"), T("--"), T(","), K("and"), K("or"), K("xor"), K("not"), K("bitand"), K("bitor"), K("compl"), K("and_eq"), K("or_eq"), K("xor_eq"), K("not_eq")>>)>>)),
    Reg("literal", 280,
        Diagram(<<Choice(0, <<NT("integer-literal"), NT("character-literal"), NT("floating-point-literal"), NT("string-literal"), NT("boolean-literal"), NT("pointer-literal"), NT("user-defined-literal")>>)>>)),
    Reg("integer-literal", 294,
        Diagram(<<Sequence(<<Choice(0, <<NT("binary-literal"), NT("octal-literal"), NT("decimal-literal"), NT("hexadecimal-literal")>>), Optional(NT("integer-suffix"))>>)>>)),
    Reg("binary-literal", 308,
        Diagram(<<Sequence(<<Choice(0, <<T("0b"), T("0B")>>), NT("binary-digit"), ZeroOrMore(Sequence(<<Optional(T("'")), NT("binary-digit")>>))>>)>>)),
    Reg("octal-literal", 318,
        Diagram(<<Choice(0, <<T("0"), Sequence(<<T("0"), OneOrMore(Sequence(<<Optional(T("'")), NT("octal-digit")>>))>>)>>)>>)),
    Reg("decimal-literal", 327,
        Diagram(<<Sequence(<<NT("nonzero-digit"), ZeroOrMore(Sequence(<<Optional(T("'")), NT("digit")>>))>>)>>)),
    Reg("hexadecimal-literal", 336,
        Diagram(<<Sequence(<<NT("hexadecimal-prefix"), NT("hexadecimal-digit-sequence")>>)>>)),
    Reg("binary-digit", 342,
        Diagram(<<Choice(0, <<T("0"), T("1")>>)>>)),
    Reg("octal-digit", 346,
        Diagram(<<Choice(0, <<T("0"), T("1"), T("2"), T("3"), T("4"), T("5"), T("6"), T("7")>>)>>)),
    Reg("nonzero-digit", 350,
        Diagram(<<Choice(0, <<T("1"), T("2"), T("3"), T("4"), T("5"), T("6"), T("7"), T("8"), T("9")>>)>>)),
    Reg("hexadecimal-prefix", 354,
        Diagram(<<Choice(0, <<T("0x"), T("0X")>>)>>)),
    Reg("hexadecimal-digit-sequence", 358,
        Diagram(<<Sequence(<<NT("hexadecimal-digit"), ZeroOrMore(Sequence(<<Optional(T("'")), NT("hexadecimal-digit")>>))>>)>>)),
    Reg("hexadecimal-digit", 367,
        Diagram(<<Choice(0, <<T("0"), T("1"), T("2"), T("3"), T("4"), T("5"), T("6"), T("7"), T("8"), T("9"), T("a"), T("b"), T("c"), T("d"), T("e"), T("f"), T("A"), T("B"), T("C"), T("D"), T("E"), T("F")>>)>>)),
    Reg("integer-suffix", 377,
        Diagram(<<Choice(0, <<Sequence(<<NT("unsigned-suffix"), Optional(Choice(0, <<NT("long-suffix"), NT("long-long-suffix"), NT("size-suffix")>>))>>), Sequence(<<NT("long-suffix"), Optional(NT("unsigned-suffix"))>>), Sequence(<<NT("long-long-suffix"), Optional(NT("unsigned-suffix"))>>), Sequence(<<NT("size-suffix"), Optional(NT("unsigned-suffix"))>>)>>)>>)),
    Reg("unsigned-suffix", 388,
        Diagram(<<Choice(0, <<T("u"), T("U")>>)>>)),
    Reg("long-suffix", 392,
        Diagram(<<Choice(0, <<T("l"), T("L")>>)>>)),
    Reg("long-long-suffix", 396,
        Diagram(<<Choice(0, <<T("ll"), T("LL")>>)>>)),
    Reg("size-suffix", 400,
        Diagram(<<Choice(0, <<T("z"), T("Z")>>)>>)),
    Reg("character-literal", 404,
        Diagram(<<Sequence(<<Optional(NT("encoding-prefix")), T("'"), NT("c-char-sequence"), T("'")>>)>>)),
    Reg("encoding-prefix", 415,
        Diagram(<<Choice(0, <<T("u8"), T("u"), T("U"), T("L")>>)>>)),
    Reg("c-char-sequence", 419,
        Diagram(<<OneOrMore(NT("c-char"))>>)),
    Reg("c-char", 423,
        Diagram(<<Choice(0, <<NT("basic-c-char"), NT("escape-sequence"), NT("universal-character-name")>>)>>)),
    Reg("basic-c-char", 433,
        Diagram(<<Comment("any char except ', \\, or new-line")>>)),
    Reg("escape-sequence", 437,
        Diagram(<<Choice(0, <<NT("simple-escape-sequence"), NT("numeric-escape-sequence"), NT("conditional-escape-sequence")>>)>>)),
    Reg("simple-escape-sequence", 447,
        Diagram(<<Sequence(<<T("\\"), NT("simple-escape-sequence-char")>>)>>)),
    Reg("simple-escape-sequence-char", 453,
        Diagram(<<Choice(0, <<T("'"), T("\""), T("?"), T("\\"), T("a"), T("b"), T("f"), T("n"), T("r"), T("t"), T("v")>>)>>)),
    Reg("numeric-escape-sequence", 459,
        Diagram(<<Choice(0, <<NT("octal-escape-sequence"), NT("hexadecimal-escape-sequence")>>)>>)),
    Reg("simple-octal-digit-sequence", 468,
        Diagram(<<OneOrMore(NT("octal-digit"))>>)),
    Reg("octal-escape-sequence", 472,
        Diagram(<<Choice(0, <<Sequence(<<T("\\"), NT("octal-digit")>>), Sequence(<<T("\\"), NT("octal-digit"), NT("octal-digit")>>), Sequence(<<T("\\"), NT("octal-digit"), NT("octal-digit"), NT("octal-digit")>>), Sequence(<<T("\\o{"), NT("simple-octal-digit-sequence"), T("}")>>)>>)>>)),
    Reg("hexadecimal-escape-sequence", 483,
        Diagram(<<Choice(0, <<Sequence(<<T("\\x"), NT("simple-hexadecimal-digit-sequence")>>), Sequence(<<T("\\x{"), NT("simple-hexadecimal-digit-sequence"), T("}")>>)>>)>>)),
    Reg("conditional-escape-sequence", 492,
        Diagram(<<Sequence(<<T("\\"), NT("conditional-escape-sequence-char")>>)>>)),
    Reg("conditional-escape-sequence-char", 498,
        Diagram(<<Comment("basic char not octal/escape/N/o/u/U/x")>>)),
    Reg("floating-point-literal", 502,
        Diagram(<<Choice(0, <<NT("decimal-floating-point-literal"), NT("hexadecimal-floating-point-literal")>>)>>)),
    Reg("decimal-floating-point-literal", 511,
        Diagram(<<Choice(0, <<Sequence(<<NT("fractional-constant"), Optional(NT("exponent-part")), Optional(NT("floating-point-suffix"))>>), Sequence(<<NT("digit-sequence"), NT("exponent-part"), Optional(NT("floating-point-suffix"))>>)>>)>>)),
    Reg("hexadecimal-floating-point-literal", 520,
        Diagram(<<Choice(0, <<Sequence(<<NT("hexadecimal-prefix"), NT("hexadecimal-fractional-constant"), NT("binary-exponent-part"), Optional(NT("floating-point-suffix"))>>), Sequence(<<NT("hexadecimal-prefix"), NT("hexadecimal-digit-sequence"), NT("binary-exponent-part"), Optional(NT("floating-point-suffix"))>>)>>)>>)),
    Reg("fractional-constant", 529,
        Diagram(<<Choice(0, <<Sequence(<<Optional(NT("digit-sequence")), T("."), NT("digit-sequence")>>), Sequence(<<NT("digit-sequence"), T(".")>>)>>)>>)),
    Reg("hexadecimal-fractional-constant", 538,
        Diagram(<<Choice(0, <<Sequence(<<Optional(NT("hexadecimal-digit-sequence")), T("."), NT("hexadecimal-digit-sequence")>>), Sequence(<<NT("hexadecimal-digit-sequence"), T(".")>>)>>)>>)),
    Reg("exponent-part", 547,
        Diagram(<<Sequence(<<Choice(0, <<T("e"), T("E")>>), Optional(NT("sign")), NT("digit-sequence")>>)>>)),
    Reg("binary-exponent-part", 553,
        Diagram(<<Sequence(<<Choice(0, <<T("p"), T("P")>>), Optional(NT("sign")), NT("digit-sequence")>>)>>)),
    Reg("sign", 559,
        Diagram(<<Choice(0, <<T("+"), T("-")>>)>>)),
    Reg("digit-sequence", 563,
        Diagram(<<Sequence(<<NT("digit"), ZeroOrMore(Sequence(<<Optional(T("'")), NT("digit")>>))>>)>>)),
    Reg("floating-point-suffix", 569,
        Diagram(<<Choice(0, <<T("f"), T("l"), T("f16"), T("f32"), T("f64"), T("f128"), T("bf16"), T("F"), T("L"), T("F16"), T("F32"), T("F64"), T("F128"), T("BF16")>>)>>)),
    Reg("string-literal", 578,
        Diagram(<<Choice(0, <<Sequence(<<Optional(NT("encoding-prefix")), T("\""), Optional(NT("s-char-sequence")), T("\"")>>), Sequence(<<Optional(NT("encoding-prefix")), T("R"), NT("raw-string")>>)>>)>>)),
    Reg("s-char-sequence", 587,
        Diagram(<<OneOrMore(NT("s-char"))>>)),
    Reg("s-char", 591,
        Diagram(<<Choice(0, <<NT("basic-s-char"), NT("escape-sequence"), NT("universal-character-name")>>)>>)),
    Reg("basic-s-char", 601,
        Diagram(<<Comment("any char except \", \\, or new-line")>>)),
    Reg("raw-string", 605,
        Diagram(<<Sequence(<<T("\""), Optional(NT("d-char-sequence")), T("("), Optional(NT("r-char-sequence")), T(")"), Optional(NT("d-char-sequence")), T("\"")>>)>>)),
    Reg("r-char-sequence", 619,
        Diagram(<<OneOrMore(NT("r-char"))>>)),
    Reg("r-char", 623,
        Diagram(<<Comment("any char except ) + d-char-seq + \"")>>)),
    Reg("d-char-sequence", 627,
        Diagram(<<OneOrMore(NT("d-char"))>>)),
    Reg("d-char", 631,
        Diagram(<<Comment("basic char except space/parens/\\/tabs/newline")>>)),
    Reg("boolean-literal", 635,
        Diagram(<<Choice(0, <<K("false"), K("true")>>)>>)),
    Reg("pointer-literal", 639,
        Diagram(<<K("nullptr")>>)),
    Reg("user-defined-literal", 643,
        Diagram(<<Choice(0, <<NT("user-defined-integer-literal"), NT("user-defined-floating-point-literal"), NT("user-defined-string-literal"), NT("user-defined-character-literal")>>)>>)),
    Reg("user-defined-integer-literal", 654,
        Diagram(<<Sequence(<<Choice(0, <<NT("decimal-literal"), NT("octal-literal"), NT("hexadecimal-literal"), NT("binary-literal")>>), NT("ud-suffix")>>)>>)),
    Reg("user-defined-floating-point-literal", 663,
        Diagram(<<Choice(0, <<Sequence(<<NT("fractional-constant"), Optional(NT("exponent-part")), NT("ud-suffix")>>), Sequence(<<NT("digit-sequence"), NT("exponent-part"), NT("ud-suffix")>>), Sequence(<<NT("hexadecimal-prefix"), NT("hexadecimal-fractional-constant"), NT("binary-exponent-part"), NT("ud-suffix")>>), Sequence(<<NT("hexadecimal-prefix"), NT("hexadecimal-digit-sequence"), NT("binary-exponent-part"), NT("ud-suffix")>>)>>)>>)),
    Reg("user-defined-string-literal", 674,
        Diagram(<<Sequence(<<NT("string-literal"), NT("ud-suffix")>>)>>)),
    Reg("user-defined-character-literal", 678,
        Diagram(<<Sequence(<<NT("character-literal"), NT("ud-suffix")>>)>>)),
    Reg("ud-suffix", 682,
        Diagram(<<NT("identifier")>>)),
    Reg("translation-unit", 688,
        Diagram(<<Choice(0, <<Optional(NT("declaration-seq")), Sequence(<<Optional(NT("global-module-fragment")), NT("module-declaration"), Optional(NT("declaration-seq")), Optional(NT("private-module-fragment"))>>)>>)>>)),
    Reg("primary-expression", 704,
        Diagram(<<Choice(0, <<NT("literal"), K("this"), Sequence(<<T("("), NT("expression"), T(")")>>), NT("id-expression"), NT("lambda-expression"), NT("fold-expression"), NT("requires-expression")>>)>>)),
    Reg("id-expression", 718,
        Diagram(<<Choice(0, <<NT("unqualified-id"), NT("qualified-id")>>)>>)),
    Reg("unqualified-id", 727,
        Diagram(<<Choice(0, <<NT("identifier"), NT("operator-function-id"), NT("conversion-function-id"), NT("literal-operator-id"), Sequence(<<T("~"), NT("type-name")>>), Sequence(<<T("~"), NT("decltype-specifier")>>), NT("template-id")>>)>>)),
    Reg("qualified-id", 741,
        Diagram(<<Sequence(<<NT("nested-name-specifier"), Optional(K("template")), NT("unqualified-id")>>)>>)),
    Reg("nested-name-specifier", 747,
        Diagram(<<Sequence(<<Choice(0, <<T("::"), Sequence(<<NT("type-name"), T("::")>>), Sequence(<<NT("namespace-name"), T("::")>>), Sequence(<<NT("decltype-specifier"), T("::")>>)>>), ZeroOrMore(Choice(0, <<Sequence(<<NT("identifier"), T("::")>>), Sequence(<<Optional(K("template")), NT("simple-template-id"), T("::")>>)>>))>>)>>)),
    Reg("lambda-expression", 766,
        Diagram(<<Choice(0, <<Sequence(<<NT("lambda-introducer"), Optional(NT("attribute-specifier-seq")), NT("lambda-declarator"), NT("compound-statement")>>), Sequence(<<NT("lambda-introducer"), T("<"), NT("template-parameter-list"), T(">"), Optional(NT("requires-clause")), Optional(NT("attribute-specifier-seq")), NT("lambda-declarator"), NT("compound-statement")>>)>>)>>)),
    Reg("lambda-introducer", 784,
        Diagram(<<Sequence(<<T("["), Optional(NT("lambda-capture")), T("]")>>)>>)),
    Reg("lambda-declarator", 790,
        Diagram(<<Choice(0, <<Sequence(<<NT("lambda-specifier-seq"), Optional(NT("noexcept-specifier")), Optional(NT("attribute-specifier-seq")), Optional(NT("trailing-return-type"))>>), Sequence(<<NT("noexcept-specifier"), Optional(NT("attribute-specifier-seq")), Optional(NT("trailing-return-type"))>>), Optional(NT("trailing-return-type")), Sequence(<<T("("), NT("parameter-declaration-clause"), T(")"), Optional(NT("lambda-specifier-seq")), Optional(NT("noexcept-specifier")), Optional(NT("attribute-specifier-seq")), Optional(NT("trailing-return-type")), Optional(NT("requires-clause"))>>)>>)>>)),
    Reg("lambda-specifier", 810,
        Diagram(<<Choice(0, <<K("consteval"), K("constexpr"), K("mutable"), K("static")>>)>>)),
    Reg("lambda-specifier-seq", 816,
        Diagram(<<OneOrMore(NT("lambda-specifier"))>>)),
    Reg("lambda-capture", 820,
        Diagram(<<Choice(0, <<NT("capture-default"), NT("capture-list"), Sequence(<<NT("capture-default"), T(","), NT("capture-list")>>)>>)>>)),
    Reg("capture-default", 830,
        Diagram(<<Choice(0, <<T("&"), T("=")>>)>>)),
    Reg("capture-list", 834,
        Diagram(<<Sequence(<<NT("capture"), ZeroOrMore(Sequence(<<T(","), NT("capture")>>))>>)>>)),
    Reg("capture", 840,
        Diagram(<<Choice(0, <<NT("simple-capture"), NT("init-capture")>>)>>)),
    Reg("simple-capture", 849,
        Diagram(<<Choice(0, <<Sequence(<<NT("identifier"), Optional(T("..."))>>), Sequence(<<T("&"), NT("identifier"), Optional(T("..."))>>), K("this"), Sequence(<<T("*"), K("this")>>)>>)>>)),
    Reg("init-capture", 860,
        Diagram(<<Choice(0, <<Sequence(<<Optional(T("...")), NT("identifier"), NT("initializer")>>), Sequence(<<T("&"), Optional(T("...")), NT("identifier"), NT("initializer")>>)>>)>>)),
    Reg("fold-expression", 869,
        Diagram(<<Choice(0, <<Sequence(<<T("("), NT("cast-expression"), NT("fold-operator"), T("..."), T(")")>>), Sequence(<<T("("), T("..."), NT("fold-operator"), NT("cast-expression"), T(")")>>), Sequence(<<T("("), NT("cast-expression"), NT("fold-operator"), T("..."), NT("fold-operator"), NT("cast-expression"), T(")")>>)>>)>>)),
    Reg("fold-operator", 879,
        Diagram(<<Choice(0, <<T("+"), T("-"), T("*"), T("/"), T("%"), T("^"), T("&"), T("|"), T("<<"), T(">>"), T("+="), T("-="), T("*="), T("/="), T("%="), T("^="), T("&="), T("|="), T("<<="), T(">>="), T("="), T("=="), T("!="), T("<"), T(">"), T("<="), T(">="), T("&&"), T("||"), T(","), T(".*"), T("->*")>>)>>)),
    Reg("requires-expression", 889,
        Diagram(<<Sequence(<<K("requires"), Optional(NT("requirement-parameter-list")), NT("requirement-body")>>)>>)),
    Reg("requirement-parameter-list", 895,
        Diagram(<<Sequence(<<T("("), NT("parameter-declaration-clause"), T(")")>>)>>)),
    Reg("requirement-body", 901,
        Diagram(<<Sequence(<<T("{"), NT("requirement-seq"), T("}")>>)>>)),
    Reg("requirement-seq", 907,
        Diagram(<<OneOrMore(NT("requirement"))>>)),
    Reg("requirement", 911,
        Diagram(<<Choice(0, <<NT("simple-requirement"), NT("type-requirement"), NT("compound-requirement"), NT("nested-requirement")>>)>>)),
    Reg("simple-requirement", 922,
        Diagram(<<Sequence(<<NT("expression"), T(";")>>)>>)),
    Reg("type-requirement", 926,
        Diagram(<<Sequence(<<K("typename"), Optional(NT("nested-name-specifier")), NT("type-name"), T(";")>>)>>)),
    Reg("compound-requirement", 932,
        Diagram(<<Sequence(<<T("{"), NT("expression"), T("}"), Optional(K("noexcept")), Optional(NT("return-type-requirement")), T(";")>>)>>)),
    Reg("return-type-requirement", 945,
        Diagram(<<Sequence(<<T("->"), NT("type-constraint")>>)>>)),
    Reg("nested-requirement", 949,
        Diagram(<<Sequence(<<K("requires"), NT("constraint-expression"), T(";")>>)>>)),
    Reg("postfix-expression", 953,
        Diagram(<<Choice(0, <<NT("primary-expression"), Sequence(<<NT("postfix-expression"), T("["), Optional(NT("expression-list")), T("]")>>), Sequence(<<NT("postfix-expression"), T("("), Optional(NT("expression-list")), T(")")>>), Sequence(<<NT("simple-type-specifier"), T("("), Optional(NT("expression-list")), T(")")>>), Sequence(<<NT("typename-specifier"), T("("), Optional(NT("expression-list")), T(")")>>), Sequence(<<NT("simple-type-specifier"), NT("braced-init-list")>>), Sequence(<<NT("typename-specifier"), NT("braced-init-list")>>), Sequence(<<NT("postfix-expression"), T("."), Optional(K("template")), NT("id-expression")>>), Sequence(<<NT("postfix-expression"), T("->"), Optional(K("template")), NT("id-expression")>>), Sequence(<<NT("postfix-expression"), T("++")>>), Sequence(<<NT("postfix-expression"), T("--")>>), Sequence(<<K("dynamic_cast"), T("<"), NT("type-id"), T(">"), T("("), NT("expression"), T(")")>>), Sequence(<<K("static_cast"), T("<"), NT("type-id"), T(">"), T("("), NT("expression"), T(")")>>), Sequence(<<K("reinterpret_cast"), T("<"), NT("type-id"), T(">"), T("("), NT("expression"), T(")")>>), Sequence(<<K("const_cast"), T("<"), NT("type-id"), T(">"), T("("), NT("expression"), T(")")>>), Sequence(<<K("typeid"), T("("), NT("expression"), T(")")>>), Sequence(<<K("typeid"), T("("), NT("type-id"), T(")")>>)>>)>>)),
    Reg("expression-list", 977,
        Diagram(<<NT("initializer-list")>>)),
    Reg("unary-expression", 981,
        Diagram(<<Choice(0, <<NT("postfix-expression"), Sequence(<<NT("unary-operator"), NT("cast-expression")>>), Sequence(<<T("++"), NT("cast-expression")>>), Sequence(<<T("--"), NT("cast-expression")>>), NT("await-expression"), Sequence(<<K("sizeof"), NT("unary-expression")>>), Sequence(<<K("sizeof"), T("("), NT("type-id"), T(")")>>), Sequence(<<K("sizeof"), T("..."), T("("), NT("identifier"), T(")")>>), Sequence(<<K("alignof"), T("("), NT("type-id"), T(")")>>), NT("noexcept-expression"), NT("new-expression"), NT("delete-expression")>>)>>)),
    Reg("unary-operator", 1000,
        Diagram(<<Choice(0, <<T("*"), T("&"), T("+"), T("-"), T("!"), T("~")>>)>>)),
    Reg("await-expression", 1004,
        Diagram(<<Sequence(<<K("co_await"), NT("cast-expression")>>)>>)),
    Reg("noexcept-expression", 1008,
        Diagram(<<Sequence(<<K("noexcept"), T("("), NT("expression"), T(")")>>)>>)),
    Reg("new-expression", 1012,
        Diagram(<<Sequence(<<Optional(T("::")), K("new"), Optional(NT("new-placement")), Choice(0, <<NT("new-type-id"), Sequence(<<T("("), NT("type-id"), T(")")>>)>>), Optional(NT("new-initializer"))>>)>>)),
    Reg("new-placement", 1024,
        Diagram(<<Sequence(<<T("("), NT("expression-list"), T(")")>>)>>)),
    Reg("new-type-id", 1028,
        Diagram(<<Sequence(<<NT("type-specifier-seq"), Optional(NT("new-declarator"))>>)>>)),
    Reg("new-declarator", 1032,
        Diagram(<<Choice(0, <<Sequence(<<NT("ptr-operator"), Optional(NT("new-declarator"))>>), NT("noptr-new-declarator")>>)>>)),
    Reg("noptr-new-declarator", 1041,
        Diagram(<<Sequence(<<T("["), Optional(NT("expression")), T("]"), Optional(NT("attribute-specifier-seq")), ZeroOrMore(Sequence(<<T("["), NT("constant-expression"), T("]"), Optional(NT("attribute-specifier-seq"))>>))>>)>>)),
    Reg("new-initializer", 1053,
        Diagram(<<Choice(0, <<Sequence(<<T("("), Optional(NT("expression-list")), T(")")>>), NT("braced-init-list")>>)>>)),
    Reg("delete-expression", 1062,
        Diagram(<<Sequence(<<Optional(T("::")), K("delete"), Optional(Sequence(<<T("["), T("]")>>)), NT("cast-expression")>>)>>)),
    Reg("cast-expression", 1073,
        Diagram(<<Choice(0, <<NT("unary-expression"), Sequence(<<T("("), NT("type-id"), T(")"), NT("cast-expression")>>)>>)>>)),
    Reg("pm-expression", 1082,
        Diagram(<<Sequence(<<NT("cast-expression"), ZeroOrMore(Sequence(<<Choice(0, <<T(".*"), T("->*")>>), NT("cast-expression")>>))>>)>>)),
    Reg("multiplicative-expression", 1091,
        Diagram(<<Sequence(<<NT("pm-expression"), ZeroOrMore(Sequence(<<Choice(0, <<T("*"), T("/"), T("%")>>), NT("pm-expression")>>))>>)>>)),
    Reg("additive-expression", 1100,
        Diagram(<<Sequence(<<NT("multiplicative-expression"), ZeroOrMore(Sequence(<<Choice(0, <<T("+"), T("-")>>), NT("multiplicative-expression")>>))>>)>>)),
    Reg("shift-expression", 1109,
        Diagram(<<Sequence(<<NT("additive-expression"), ZeroOrMore(Sequence(<<Choice(0, <<T("<<"), T(">>")>>), NT("additive-expression")>>))>>)>>)),
    Reg("compare-expression", 1118,
        Diagram(<<Sequence(<<NT("shift-expression"), ZeroOrMore(Sequence(<<T("<=>"), NT("shift-expression")>>))>>)>>)),
    Reg("relational-expression", 1127,
        Diagram(<<Sequence(<<NT("compare-expression"), ZeroOrMore(Sequence(<<Choice(0, <<T("<"), T(">"), T("<="), T(">=")>>), NT("compare-expression")>>))>>)>>)),
    Reg("equality-expression", 1136,
        Diagram(<<Sequence(<<NT("relational-expression"), ZeroOrMore(Sequence(<<Choice(0, <<T("=="), T("!=")>>), NT("relational-expression")>>))>>)>>)),
    Reg("and-expression", 1145,
        Diagram(<<Sequence(<<NT("equality-expression"), ZeroOrMore(Sequence(<<T("&"), NT("equality-expression")>>))>>)>>)),
    Reg("exclusive-or-expression", 1154,
        Diagram(<<Sequence(<<NT("and-expression"), ZeroOrMore(Sequence(<<T("^"), NT("and-expression")>>))>>)>>)),
    Reg("inclusive-or-expression", 1163,
        Diagram(<<Sequence(<<NT("exclusive-or-expression"), ZeroOrMore(Sequence(<<T("|"), NT("exclusive-or-expression")>>))>>)>>)),
    Reg("logical-and-expression", 1172,
        Diagram(<<Sequence(<<NT("inclusive-or-expression"), ZeroOrMore(Sequence(<<T("&&"), NT("inclusive-or-expression")>>))>>)>>)),
    Reg("logical-or-expression", 1181,
        Diagram(<<Sequence(<<NT("logical-and-expression"), ZeroOrMore(Sequence(<<T("||"), NT("logical-and-expression")>>))>>)>>)),
    Reg("conditional-expression", 1190,
        Diagram(<<Choice(0, <<NT("logical-or-expression"), Sequence(<<NT("logical-or-expression"), T("?"), NT("expression"), T(":"), NT("assignment-expression")>>)>>)>>)),
    Reg("yield-expression", 1199,
        Diagram(<<Choice(0, <<Sequence(<<K("co_yield"), NT("assignment-expression")>>), Sequence(<<K("co_yield"), NT("braced-init-list")>>)>>)>>)),
    Reg("throw-expression", 1208,
        Diagram(<<Sequence(<<K("throw"), Optional(NT("assignment-expression"))>>)>>)),
    Reg("assignment-expression", 1212,
        Diagram(<<Choice(0, <<NT("conditional-expression"), NT("yield-expression"), NT("throw-expression"), Sequence(<<NT("logical-or-expression"), NT("assignment-operator"), NT("initializer-clause")>>)>>)>>)),
    Reg("assignment-operator", 1223,
        Diagram(<<Choice(0, <<T("="), T("*="), T("/="), T("%="), T("+="), T("-="), T(">>="), T("<<="), T("&="), T("^="), T("|=")>>)>>)),
    Reg("expression", 1232,
        Diagram(<<Sequence(<<NT("assignment-expression"), ZeroOrMore(Sequence(<<T(","), NT("assignment-expression")>>))>>)>>)),
    Reg("constant-expression", 1241,
        Diagram(<<NT("conditional-expression")>>)),
    Reg("statement", 1247,
        Diagram(<<Choice(0, <<NT("labeled-statement"), Sequence(<<Optional(NT("attribute-specifier-seq")), NT("expression-statement")>>), Sequence(<<Optional(NT("attribute-specifier-seq")), NT("compound-statement")>>), Sequence(<<Optional(NT("attribute-specifier-seq")), NT("selection-statement")>>), Sequence(<<Optional(NT("attribute-specifier-seq")), NT("iteration-statement")>>), Sequence(<<Optional(NT("attribute-specifier-seq")), NT("jump-statement")>>), NT("declaration-statement"), Sequence(<<Optional(NT("attribute-specifier-seq")), NT("try-block")>>)>>)>>)),
    Reg("init-statement", 1262,
        Diagram(<<Choice(0, <<NT("expression-statement"), NT("simple-declaration"), NT("alias-declaration")>>)>>)),
    Reg("condition", 1272,
        Diagram(<<Choice(0, <<NT("expression"), Sequence(<<Optional(NT("attribute-specifier-seq")), NT("decl-specifier-seq"), NT("declarator"), NT("brace-or-equal-initializer")>>)>>)>>)),
    Reg("label", 1281,
        Diagram(<<Sequence(<<Optional(NT("attribute-specifier-seq")), Choice(0, <<Sequence(<<NT("identifier"), T(":")>>), Sequence(<<K("case"), NT("constant-expression"), T(":")>>), Sequence(<<K("default"), T(":")>>)>>)>>)>>)),
    Reg("labeled-statement", 1294,
        Diagram(<<Sequence(<<NT("label"), NT("statement")>>)>>)),
    Reg("expression-statement", 1298,
        Diagram(<<Sequence(<<Optional(NT("expression")), T(";")>>)>>)),
    Reg("compound-statement", 1302,
        Diagram(<<Sequence(<<T("{"), Optional(NT("statement-seq")), Optional(NT("label-seq")), T("}")>>)>>)),
    Reg("statement-seq", 1308,
        Diagram(<<OneOrMore(NT("statement"))>>)),
    Reg("label-seq", 1312,
        Diagram(<<OneOrMore(NT("label"))>>)),
    Reg("selection-statement", 1316,
        Diagram(<<Choice(0, <<Sequence(<<K("if"), Optional(K("constexpr")), T("("), Optional(NT("init-statement")), NT("condition"), T(")"), NT("statement")>>), Sequence(<<K("if"), Optional(K("constexpr")), T("("), Optional(NT("init-statement")), NT("condition"), T(")"), NT("statement"), K("else"), NT("statement")>>), Sequence(<<K("if"), Optional(T("!")), K("consteval"), NT("compound-statement")>>), Sequence(<<K("if"), Optional(T("!")), K("consteval"), NT("compound-statement"), K("else"), NT("statement")>>), Sequence(<<K("switch"), T("("), Optional(NT("init-statement")), NT("condition"), T(")"), NT("statement")>>)>>)>>)),
    Reg("iteration-statement", 1328,
        Diagram(<<Choice(0, <<Sequence(<<K("while"), T("("), NT("condition"), T(")"), NT("statement")>>), Sequence(<<K("do"), NT("statement"), K("while"), T("("), NT("expression"), T(")"), T(";")>>), Sequence(<<K("for"), T("("), NT("init-statement"), Optional(NT("condition")), T(";"), Optional(NT("expression")), T(")"), NT("statement")>>), Sequence(<<K("for"), T("("), Optional(NT("init-statement")), NT("for-range-declaration"), T(":"), NT("for-range-initializer"), T(")"), NT("statement")>>)>>)>>)),
    Reg("for-range-declaration", 1339,
        Diagram(<<Choice(0, <<Sequence(<<Optional(NT("attribute-specifier-seq")), NT("decl-specifier-seq"), NT("declarator")>>), Sequence(<<Optional(NT("attribute-specifier-seq")), NT("decl-specifier-seq"), Optional(NT("ref-qualifier")), T("["), NT("identifier-list"), T("]")>>)>>)>>)),
    Reg("for-range-initializer", 1348,
        Diagram(<<NT("expr-or-braced-init-list")>>)),
    Reg("jump-statement", 1352,
        Diagram(<<Choice(0, <<Sequence(<<K("break"), T(";")>>), Sequence(<<K("continue"), T(";")>>), Sequence(<<K("return"), Optional(NT("expr-or-braced-init-list")), T(";")>>), NT("coroutine-return-statement"), Sequence(<<K("goto"), NT("identifier"), T(";")>>)>>)>>)),
    Reg("coroutine-return-statement", 1364,
        Diagram(<<Sequence(<<K("co_return"), Optional(NT("expr-or-braced-init-list")), T(";")>>)>>)),
    Reg("declaration-statement", 1368,
        Diagram(<<NT("block-declaration")>>)),
    Reg("declaration-seq", 1374,
        Diagram(<<OneOrMore(NT("declaration"))>>)),
    Reg("declaration", 1378,
        Diagram(<<Choice(0, <<NT("name-declaration"), NT("special-declaration")>>)>>)),
    Reg("name-declaration", 1387,
        Diagram(<<Choice(0, <<NT("block-declaration"), NT("nodeclspec-function-declaration"), NT("function-definition"), NT("template-declaration"), NT("deduction-guide"), NT("linkage-specification"), NT("namespace-definition"), NT("empty-declaration"), NT("attribute-declaration"), NT("module-import-declaration")>>)>>)),
    Reg("special-declaration", 1404,
        Diagram(<<Choice(0, <<NT("explicit-instantiation"), NT("explicit-specialization"), NT("export-declaration")>>)>>)),
    Reg("block-declaration", 1414,
        Diagram(<<Choice(0, <<NT("simple-declaration"), NT("asm-declaration"), NT("namespace-alias-definition"), NT("using-declaration"), NT("using-enum-declaration"), NT("using-directive"), NT("static_assert-declaration"), NT("alias-declaration"), NT("opaque-enum-declaration")>>)>>)),
    Reg("nodeclspec-function-declaration", 1430,
        Diagram(<<Sequence(<<Optional(NT("attribute-specifier-seq")), NT("declarator"), T(";")>>)>>)),
    Reg("alias-declaration", 1436,
        Diagram(<<Sequence(<<K("using"), NT("identifier"), Optional(NT("attribute-specifier-seq")), T("="), NT("defining-type-id"), T(";")>>)>>)),
    Reg("simple-declaration", 1442,
        Diagram(<<Choice(0, <<Sequence(<<NT("decl-specifier-seq"), Optional(NT("init-declarator-list")), T(";")>>), Sequence(<<NT("attribute-specifier-seq"), NT("decl-specifier-seq"), NT("init-declarator-list"), T(";")>>), Sequence(<<Optional(NT("attribute-specifier-seq")), NT("decl-specifier-seq"), Optional(NT("ref-qualifier")), T("["), NT("identifier-list"), T("]"), NT("initializer"), T(";")>>)>>)>>)),
    Reg("static_assert-declaration", 1452,
        Diagram(<<Choice(0, <<Sequence(<<K("static_assert"), T("("), NT("constant-expression"), T(")"), T(";")>>), Sequence(<<K("static_assert"), T("("), NT("constant-expression"), T(","), NT("string-literal"), T(")"), T(";")>>)>>)>>)),
    Reg("empty-declaration", 1461,
        Diagram(<<T(";")>>)),
    Reg("attribute-declaration", 1465,
        Diagram(<<Sequence(<<NT("attribute-specifier-seq"), T(";")>>)>>)),
    Reg("decl-specifier", 1469,
        Diagram(<<Choice(0, <<NT("storage-class-specifier"), NT("defining-type-specifier"), NT("function-specifier"), K("friend"), K("typedef"), K("constexpr"), K("consteval"), K("constinit"), K("inline")>>)>>)),
    Reg("decl-specifier-seq", 1485,
        Diagram(<<OneOrMore(Sequence(<<NT("decl-specifier"), Optional(NT("attribute-specifier-seq"))>>))>>)),
    Reg("storage-class-specifier", 1491,
        Diagram(<<Choice(0, <<K("static"), K("thread_local"), K("extern"), K("mutable")>>)>>)),
    Reg("function-specifier", 1497,
        Diagram(<<Choice(0, <<K("virtual"), NT("explicit-specifier")>>)>>)),
    Reg("explicit-specifier", 1503,
        Diagram(<<Choice(0, <<Sequence(<<K("explicit"), T("("), NT("constant-expression"), T(")")>>), K("explicit")>>)>>)),
    Reg("type-specifier", 1512,
        Diagram(<<Choice(0, <<NT("simple-type-specifier"), NT("elaborated-type-specifier"), NT("typename-specifier"), NT("cv-qualifier")>>)>>)),
    Reg("type-specifier-seq", 1523,
        Diagram(<<OneOrMore(Sequence(<<NT("type-specifier"), Optional(NT("attribute-specifier-seq"))>>))>>)),
    Reg("defining-type-specifier", 1529,
        Diagram(<<Choice(0, <<NT("type-specifier"), NT("class-specifier"), NT("enum-specifier")>>)>>)),
    Reg("defining-type-specifier-seq", 1539,
        Diagram(<<OneOrMore(Sequence(<<NT("defining-type-specifier"), Optional(NT("attribute-specifier-seq"))>>))>>)),
    Reg("simple-type-specifier", 1545,
        Diagram(<<Choice(0, <<Sequence(<<Optional(NT("nested-name-specifier")), NT("type-name")>>), Sequence(<<NT("nested-name-specifier"), K("template"), NT("simple-template-id")>>), NT("decltype-specifier"), NT("placeholder-type-specifier"), Sequence(<<Optional(NT("nested-name-specifier")), NT("template-name")>>), K("char"), K("char8_t"), K("char16_t"), K("char32_t"), K("wchar_t"), K("bool"), K("short"), K("int"), K("long"), K("signed"), K("unsigned"), K("float"), K("double"), K("void")>>)>>)),
    Reg("type-name", 1560,
        Diagram(<<Choice(0, <<NT("class-name"), NT("enum-name"), NT("typedef-name")>>)>>)),
    Reg("elaborated-type-specifier", 1570,
        Diagram(<<Choice(0, <<Sequence(<<NT("class-key"), Optional(NT("attribute-specifier-seq")), Optional(NT("nested-name-specifier")), NT("identifier")>>), Sequence(<<NT("class-key"), NT("simple-template-id")>>), Sequence(<<NT("class-key"), NT("nested-name-specifier"), Optional(K("template")), NT("simple-template-id")>>), Sequence(<<K("enum"), Optional(NT("nested-name-specifier")), NT("identifier")>>)>>)>>)),
    Reg("decltype-specifier", 1581,
        Diagram(<<Sequence(<<K("decltype"), T("("), NT("expression"), T(")")>>)>>)),
    Reg("placeholder-type-specifier", 1587,
        Diagram(<<Choice(0, <<Sequence(<<Optional(NT("type-constraint")), K("auto")>>), Sequence(<<Optional(NT("type-constraint")), K("decltype"), T("("), K("auto"), T(")")>>)>>)>>)),
    Reg("init-declarator-list", 1596,
        Diagram(<<Sequence(<<NT("init-declarator"), ZeroOrMore(Sequence(<<T(","), NT("init-declarator")>>))>>)>>)),
    Reg("init-declarator", 1602,
        Diagram(<<Choice(0, <<Sequence(<<NT("declarator"), Optional(NT("initializer"))>>), Sequence(<<NT("declarator"), NT("requires-clause")>>)>>)>>)),
    Reg("declarator", 1611,
        Diagram(<<Choice(0, <<NT("ptr-declarator"), Sequence(<<NT("noptr-declarator"), NT("parameters-and-qualifiers"), NT("trailing-return-type")>>)>>)>>)),
    Reg("ptr-declarator", 1620,
        Diagram(<<Choice(0, <<NT("noptr-declarator"), Sequence(<<NT("ptr-operator"), NT("ptr-declarator")>>)>>)>>)),
    Reg("noptr-declarator", 1629,
        Diagram(<<Sequence(<<Choice(0, <<Sequence(<<NT("declarator-id"), Optional(NT("attribute-specifier-seq"))>>), Sequence(<<T("("), NT("ptr-declarator"), T(")")>>)>>), ZeroOrMore(Choice(0, <<NT("parameters-and-qualifiers"), Sequence(<<T("["), Optional(NT("constant-expression")), T("]"), Optional(NT("attribute-specifier-seq"))>>)>>))>>)>>)),
    Reg("parameters-and-qualifiers", 1646,
        Diagram(<<Sequence(<<T("("), NT("parameter-declaration-clause"), T(")"), Optional(NT("cv-qualifier-seq")), Optional(NT("ref-qualifier")), Optional(NT("noexcept-specifier")), Optional(NT("attribute-specifier-seq"))>>)>>)),
    Reg("trailing-return-type", 1660,
        Diagram(<<Sequence(<<T("->"), NT("type-id")>>)>>)),
    Reg("ptr-operator", 1664,
        Diagram(<<Choice(0, <<Sequence(<<T("*"), Optional(NT("attribute-specifier-seq")), Optional(NT("cv-qualifier-seq"))>>), Sequence(<<T("&"), Optional(NT("attribute-specifier-seq"))>>), Sequence(<<T("&&"), Optional(NT("attribute-specifier-seq"))>>), Sequence(<<NT("nested-name-specifier"), T("*"), Optional(NT("attribute-specifier-seq")), Optional(NT("cv-qualifier-seq"))>>)>>)>>)),
    Reg("cv-qualifier-seq", 1675,
        Diagram(<<OneOrMore(NT("cv-qualifier"))>>)),
    Reg("cv-qualifier", 1679,
        Diagram(<<Choice(0, <<K("const"), K("volatile")>>)>>)),
    Reg("ref-qualifier", 1683,
        Diagram(<<Choice(0, <<T("&"), T("&&")>>)>>)),
    Reg("declarator-id", 1687,
        Diagram(<<Sequence(<<Optional(T("...")), NT("id-expression")>>)>>)),
    Reg("type-id", 1691,
        Diagram(<<Sequence(<<NT("type-specifier-seq"), Optional(NT("abstract-declarator"))>>)>>)),
    Reg("defining-type-id", 1697,
        Diagram(<<Sequence(<<NT("defining-type-specifier-seq"), Optional(NT("abstract-declarator"))>>)>>)),
    Reg("abstract-declarator", 1703,
        Diagram(<<Choice(0, <<NT("ptr-abstract-declarator"), Sequence(<<Optional(NT("noptr-abstract-declarator")), NT("parameters-and-qualifiers"), NT("trailing-return-type")>>), NT("abstract-pack-declarator")>>)>>)),
    Reg("ptr-abstract-declarator", 1713,
        Diagram(<<Choice(0, <<NT("noptr-abstract-declarator"), Sequence(<<NT("ptr-operator"), Optional(NT("ptr-abstract-declarator"))>>)>>)>>)),
    Reg("noptr-abstract-declarator", 1722,
        Diagram(<<Sequence(<<Optional(Sequence(<<T("("), NT("ptr-abstract-declarator"), T(")")>>)), ZeroOrMore(Choice(0, <<NT("parameters-and-qualifiers"), Sequence(<<T("["), Optional(NT("constant-expression")), T("]"), Optional(NT("attribute-specifier-seq"))>>)>>))>>)>>)),
    Reg("abstract-pack-declarator", 1736,
        Diagram(<<Choice(0, <<NT("noptr-abstract-pack-declarator"), Sequence(<<NT("ptr-operator"), NT("abstract-pack-declarator")>>)>>)>>)),
    Reg("noptr-abstract-pack-declarator", 1745,
        Diagram(<<Sequence(<<T("..."), ZeroOrMore(Choice(0, <<NT("parameters-and-qualifiers"), Sequence(<<T("["), Optional(NT("constant-expression")), T("]"), Optional(NT("attribute-specifier-seq"))>>)>>))>>)>>)),
    Reg("parameter-declaration-clause", 1759,
        Diagram(<<Choice(0, <<Sequence(<<Optional(NT("parameter-declaration-list")), Optional(T("..."))>>), Sequence(<<NT("parameter-declaration-list"), T(","), T("...")>>)>>)>>)),
    Reg("parameter-declaration-list", 1768,
        Diagram(<<Sequence(<<NT("parameter-declaration"), ZeroOrMore(Sequence(<<T(","), NT("parameter-declaration")>>))>>)>>)),
    Reg("parameter-declaration", 1774,
        Diagram(<<Choice(0, <<Sequence(<<Optional(NT("attribute-specifier-seq")), Optional(K("this")), NT("decl-specifier-seq"), NT("declarator")>>), Sequence(<<Optional(NT("attribute-specifier-seq")), NT("decl-specifier-seq"), NT("declarator"), T("="), NT("initializer-clause")>>), Sequence(<<Optional(NT("attribute-specifier-seq")), Optional(K("this")), NT("decl-specifier-seq"), Optional(NT("abstract-declarator"))>>), Sequence(<<Optional(NT("attribute-specifier-seq")), NT("decl-specifier-seq"), Optional(NT("abstract-declarator")), T("="), NT("initializer-clause")>>)>>)>>)),
    Reg("initializer", 1785,
        Diagram(<<Choice(0, <<NT("brace-or-equal-initializer"), Sequence(<<T("("), NT("expression-list"), T(")")>>)>>)>>)),
    Reg("brace-or-equal-initializer", 1794,
        Diagram(<<Choice(0, <<Sequence(<<T("="), NT("initializer-clause")>>), NT("braced-init-list")>>)>>)),
    Reg("initializer-clause", 1803,
        Diagram(<<Choice(0, <<NT("assignment-expression"), NT("braced-init-list")>>)>>)),
    Reg("braced-init-list", 1812,
        Diagram(<<Choice(0, <<Sequence(<<T("{"), NT("initializer-list"), Optional(T(",")), T("}")>>), Sequence(<<T("{"), NT("designated-initializer-list"), Optional(T(",")), T("}")>>), Sequence(<<T("{"), T("}")>>)>>)>>)),
    Reg("initializer-list", 1822,
        Diagram(<<Sequence(<<NT("initializer-clause"), Optional(T("...")), ZeroOrMore(Sequence(<<T(","), NT("initializer-clause"), Optional(T("..."))>>))>>)>>)),
    Reg("designated-initializer-list", 1832,
        Diagram(<<Sequence(<<NT("designated-initializer-clause"), ZeroOrMore(Sequence(<<T(","), NT("designated-initializer-clause")>>))>>)>>)),
    Reg("designated-initializer-clause", 1841,
        Diagram(<<Sequence(<<NT("designator"), NT("brace-or-equal-initializer")>>)>>)),
    Reg("designator", 1847,
        Diagram(<<Sequence(<<T("."), NT("identifier")>>)>>)),
    Reg("expr-or-braced-init-list", 1851,
        Diagram(<<Choice(0, <<NT("expression"), NT("braced-init-list")>>)>>)),
    Reg("function-definition", 1857,
        Diagram(<<Choice(0, <<Sequence(<<Optional(NT("attribute-specifier-seq")), Optional(NT("decl-specifier-seq")), NT("declarator"), Optional(NT("virt-specifier-seq")), NT("function-body")>>), Sequence(<<Optional(NT("attribute-specifier-seq")), Optional(NT("decl-specifier-seq")), NT("declarator"), NT("requires-clause"), NT("function-body")>>)>>)>>)),
    Reg("function-body", 1866,
        Diagram(<<Choice(0, <<Sequence(<<Optional(NT("ctor-initializer")), NT("compound-statement")>>), NT("function-try-block"), Sequence(<<T("="), K("default"), T(";")>>), Sequence(<<T("="), K("delete"), T(";")>>)>>)>>)),
    Reg("enum-specifier", 1877,
        Diagram(<<Choice(0, <<Sequence(<<NT("enum-head"), T("{"), Optional(NT("enumerator-list")), T("}")>>), Sequence(<<NT("enum-head"), T("{"), NT("enumerator-list"), T(","), T("}")>>)>>)>>)),
    Reg("enum-head", 1886,
        Diagram(<<Sequence(<<NT("enum-key"), Optional(NT("attribute-specifier-seq")), Optional(NT("enum-head-name")), Optional(NT("enum-base"))>>)>>)),
    Reg("enum-head-name", 1897,
        Diagram(<<Sequence(<<Optional(NT("nested-name-specifier")), NT("identifier")>>)>>)),
    Reg("opaque-enum-declaration", 1903,
        Diagram(<<Sequence(<<NT("enum-key"), Optional(NT("attribute-specifier-seq")), NT("enum-head-name"), Optional(NT("enum-base")), T(";")>>)>>)),
    Reg("enum-key", 1909,
        Diagram(<<Choice(0, <<K("enum"), Sequence(<<K("enum"), K("class")>>), Sequence(<<K("enum"), K("struct")>>)>>)>>)),
    Reg("enum-base", 1919,
        Diagram(<<Sequence(<<T(":"), NT("type-specifier-seq")>>)>>)),
    Reg("enumerator-list", 1923,
        Diagram(<<Sequence(<<NT("enumerator-definition"), ZeroOrMore(Sequence(<<T(","), NT("enumerator-definition")>>))>>)>>)),
    Reg("enumerator-definition", 1929,
        Diagram(<<Choice(0, <<NT("enumerator"), Sequence(<<NT("enumerator"), T("="), NT("constant-expression")>>)>>)>>)),
    Reg("enumerator", 1938,
        Diagram(<<Sequence(<<NT("identifier"), Optional(NT("attribute-specifier-seq"))>>)>>)),
    Reg("using-enum-declaration", 1942,
        Diagram(<<Sequence(<<K("using"), K("enum"), NT("using-enum-declarator"), T(";")>>)>>)),
    Reg("using-enum-declarator", 1948,
        Diagram(<<Choice(0, <<Sequence(<<Optional(NT("nested-name-specifier")), NT("identifier")>>), Sequence(<<Optional(NT("nested-name-specifier")), NT("simple-template-id")>>)>>)>>)),
    Reg("namespace-definition", 1957,
        Diagram(<<Choice(0, <<NT("named-namespace-definition"), NT("unnamed-namespace-definition"), NT("nested-namespace-definition")>>)>>)),
    Reg("named-namespace-definition", 1967,
        Diagram(<<Sequence(<<Optional(K("inline")), K("namespace"), Optional(NT("attribute-specifier-seq")), NT("identifier"), T("{"), NT("namespace-body"), T("}")>>)>>)),
    Reg("unnamed-namespace-definition", 1973,
        Diagram(<<Sequence(<<Optional(K("inline")), K("namespace"), Optional(NT("attribute-specifier-seq")), T("{"), NT("namespace-body"), T("}")>>)>>)),
    Reg("nested-namespace-definition", 1979,
        Diagram(<<Sequence(<<K("namespace"), NT("enclosing-namespace-specifier"), T("::"), Optional(K("inline")), NT("identifier"), T("{"), NT("namespace-body"), T("}")>>)>>)),
    Reg("enclosing-namespace-specifier", 1985,
        Diagram(<<Sequence(<<NT("identifier"), ZeroOrMore(Sequence(<<T("::"), Optional(K("inline")), NT("identifier")>>))>>)>>)),
    Reg("namespace-body", 1994,
        Diagram(<<Optional(NT("declaration-seq"))>>)),
    Reg("namespace-alias-definition", 1998,
        Diagram(<<Sequence(<<K("namespace"), NT("identifier"), T("="), NT("qualified-namespace-specifier"), T(";")>>)>>)),
    Reg("qualified-namespace-specifier", 2004,
        Diagram(<<Sequence(<<Optional(NT("nested-name-specifier")), NT("namespace-name")>>)>>)),
    Reg("using-directive", 2010,
        Diagram(<<Sequence(<<Optional(NT("attribute-specifier-seq")), K("using"), K("namespace"), Optional(NT("nested-name-specifier")), NT("namespace-name"), T(";")>>)>>)),
    Reg("using-declaration", 2016,
        Diagram(<<Sequence(<<K("using"), NT("using-declarator-list"), T(";")>>)>>)),
    Reg("using-declarator-list", 2022,
        Diagram(<<Sequence(<<NT("using-declarator"), Optional(T("...")), ZeroOrMore(Sequence(<<T(","), NT("using-declarator"), Optional(T("..."))>>))>>)>>)),
    Reg("using-declarator", 2032,
        Diagram(<<Sequence(<<Optional(K("typename")), NT("nested-name-specifier"), NT("unqualified-id")>>)>>)),
    Reg("asm-declaration", 2038,
        Diagram(<<Sequence(<<Optional(NT("attribute-specifier-seq")), K("asm"), T("("), NT("string-literal"), T(")"), T(";")>>)>>)),
    Reg("linkage-specification", 2044,
        Diagram(<<Choice(0, <<Sequence(<<K("extern"), NT("string-literal"), T("{"), Optional(NT("declaration-seq")), T("}")>>), Sequence(<<K("extern"), NT("string-literal"), NT("name-declaration")>>)>>)>>)),
    Reg("attribute-specifier-seq", 2053,
        Diagram(<<OneOrMore(NT("attribute-specifier"))>>)),
    Reg("attribute-specifier", 2057,
        Diagram(<<Choice(0, <<Sequence(<<T("[["), Optional(NT("attribute-using-prefix")), NT("attribute-list"), T("]]")>>), NT("alignment-specifier")>>)>>)),
    Reg("alignment-specifier", 2066,
        Diagram(<<Choice(0, <<Sequence(<<K("alignas"), T("("), NT("type-id"), Optional(T("...")), T(")")>>), Sequence(<<K("alignas"), T("("), NT("constant-expression"), Optional(T("...")), T(")")>>)>>)>>)),
    Reg("attribute-using-prefix", 2075,
        Diagram(<<Sequence(<<K("using"), NT("attribute-namespace"), T(":")>>)>>)),
    Reg("attribute-list", 2081,
        Diagram(<<Sequence(<<Optional(NT("attribute")), ZeroOrMore(Sequence(<<T(","), Optional(NT("attribute"))>>)), ZeroOrMore(Sequence(<<NT("attribute"), T("...")>>))>>)>>)),
    Reg("attribute", 2091,
        Diagram(<<Sequence(<<NT("attribute-token"), Optional(NT("attribute-argument-clause"))>>)>>)),
    Reg("attribute-token", 2097,
        Diagram(<<Choice(0, <<NT("identifier"), NT("attribute-scoped-token")>>)>>)),
    Reg("attribute-scoped-token", 2106,
        Diagram(<<Sequence(<<NT("attribute-namespace"), T("::"), NT("identifier")>>)>>)),
    Reg("attribute-namespace", 2112,
        Diagram(<<NT("identifier")>>)),
    Reg("attribute-argument-clause", 2116,
        Diagram(<<Sequence(<<T("("), Optional(NT("balanced-token-seq")), T(")")>>)>>)),
    Reg("balanced-token-seq", 2122,
        Diagram(<<OneOrMore(NT("balanced-token"))>>)),
    Reg("balanced-token", 2126,
        Diagram(<<Choice(0, <<Sequence(<<T("("), Optional(NT("balanced-token-seq")), T(")")>>), Sequence(<<T("["), Optional(NT("balanced-token-seq")), T("]")>>), Sequence(<<T("{"), Optional(NT("balanced-token-seq")), T("}")>>), Comment("any token except ( ) [ ] { }")>>)>>)),
    Reg("module-declaration", 2139,
        Diagram(<<Sequence(<<Optional(NT("export-keyword")), NT("module-keyword"), NT("module-name"), Optional(NT("module-partition")), Optional(NT("attribute-specifier-seq")), T(";")>>)>>)),
    Reg("module-name", 2152,
        Diagram(<<Sequence(<<Optional(NT("module-name-qualifier")), NT("identifier")>>)>>)),
    Reg("module-partition", 2158,
        Diagram(<<Sequence(<<T(":"), Optional(NT("module-name-qualifier")), NT("identifier")>>)>>)),
    Reg("module-name-qualifier", 2164,
        Diagram(<<OneOrMore(Sequence(<<NT("identifier"), T(".")>>))>>)),
    Reg("export-declaration", 2170,
        Diagram(<<Choice(0, <<Sequence(<<K("export"), NT("name-declaration")>>), Sequence(<<K("export"), T("{"), Optional(NT("declaration-seq")), T("}")>>), Sequence(<<NT("export-keyword"), NT("module-import-declaration")>>)>>)>>)),
    Reg("module-import-declaration", 2180,
        Diagram(<<Choice(0, <<Sequence(<<NT("import-keyword"), NT("module-name"), Optional(NT("attribute-specifier-seq")), T(";")>>), Sequence(<<NT("import-keyword"), NT("module-partition"), Optional(NT("attribute-specifier-seq")), T(";")>>), Sequence(<<NT("import-keyword"), NT("header-name"), Optional(NT("attribute-specifier-seq")), T(";")>>)>>)>>)),
    Reg("global-module-fragment", 2190,
        Diagram(<<Sequence(<<NT("module-keyword"), T(";"), Optional(NT("declaration-seq"))>>)>>)),
    Reg("private-module-fragment", 2196,
        Diagram(<<Sequence(<<NT("module-keyword"), T(":"), K("private"), T(";"), Optional(NT("declaration-seq"))>>)>>)),
    Reg("import-keyword", 2202,
        Diagram(<<K("import")>>)),
    Reg("module-keyword", 2206,
        Diagram(<<K("module")>>)),
    Reg("export-keyword", 2210,
        Diagram(<<K("export")>>)),
    Reg("class-specifier", 2216,
        Diagram(<<Sequence(<<NT("class-head"), T("{"), Optional(NT("member-specification")), T("}")>>)>>)),
    Reg("class-head", 2222,
        Diagram(<<Choice(0, <<Sequence(<<NT("class-key"), Optional(NT("attribute-specifier-seq")), NT("class-head-name"), Optional(NT("class-virt-specifier")), Optional(NT("base-clause"))>>), Sequence(<<NT("class-key"), Optional(NT("attribute-specifier-seq")), Optional(NT("base-clause"))>>)>>)>>)),
    Reg("class-head-name", 2231,
        Diagram(<<Sequence(<<Optional(NT("nested-name-specifier")), NT("class-name")>>)>>)),
    Reg("class-virt-specifier", 2237,
        Diagram(<<K("final")>>)),
    Reg("class-key", 2241,
        Diagram(<<Choice(0, <<K("class"), K("struct"), K("union")>>)>>)),
    Reg("member-specification", 2245,
        Diagram(<<OneOrMore(Choice(0, <<NT("member-declaration"), Sequence(<<NT("access-specifier"), T(":")>>)>>))>>)),
    Reg("member-declaration", 2256,
        Diagram(<<Choice(0, <<Sequence(<<Optional(NT("attribute-specifier-seq")), Optional(NT("decl-specifier-seq")), Optional(NT("member-declarator-list")), T(";")>>), NT("function-definition"), NT("using-declaration"), NT("using-enum-declaration"), NT("static_assert-declaration"), NT("template-declaration"), NT("explicit-specialization"), NT("deduction-guide"), NT("alias-declaration"), NT("opaque-enum-declaration"), NT("empty-declaration")>>)>>)),
    Reg("member-declarator-list", 2274,
        Diagram(<<Sequence(<<NT("member-declarator"), ZeroOrMore(Sequence(<<T(","), NT("member-declarator")>>))>>)>>)),
    Reg("member-declarator", 2280,
        Diagram(<<Choice(0, <<Sequence(<<NT("declarator"), Optional(NT("virt-specifier-seq")), Optional(NT("pure-specifier"))>>), Sequence(<<NT("declarator"), NT("requires-clause")>>), Sequence(<<NT("declarator"), Optional(NT("brace-or-equal-initializer"))>>), Sequence(<<Optional(NT("identifier")), Optional(NT("attribute-specifier-seq")), T(":"), NT("constant-expression"), Optional(NT("brace-or-equal-initializer"))>>)>>)>>)),
    Reg("virt-specifier-seq", 2291,
        Diagram(<<OneOrMore(NT("virt-specifier"))>>)),
    Reg("virt-specifier", 2295,
        Diagram(<<Choice(0, <<K("override"), K("final")>>)>>)),
    Reg("pure-specifier", 2299,
        Diagram(<<Sequence(<<T("="), T("0")>>)>>)),
    Reg("conversion-function-id", 2303,
        Diagram(<<Sequence(<<K("operator"), NT("conversion-type-id")>>)>>)),
    Reg("conversion-type-id", 2309,
        Diagram(<<Sequence(<<NT("type-specifier-seq"), Optional(NT("conversion-declarator"))>>)>>)),
    Reg("conversion-declarator", 2315,
        Diagram(<<Sequence(<<NT("ptr-operator"), Optional(NT("conversion-declarator"))>>)>>)),
    Reg("base-clause", 2321,
        Diagram(<<Sequence(<<T(":"), NT("base-specifier-list")>>)>>)),
    Reg("base-specifier-list", 2325,
        Diagram(<<Sequence(<<NT("base-specifier"), Optional(T("...")), ZeroOrMore(Sequence(<<T(","), NT("base-specifier"), Optional(T("..."))>>))>>)>>)),
    Reg("base-specifier", 2335,
        Diagram(<<Choice(0, <<Sequence(<<Optional(NT("attribute-specifier-seq")), NT("class-or-decltype")>>), Sequence(<<Optional(NT("attribute-specifier-seq")), K("virtual"), Optional(NT("access-specifier")), NT("class-or-decltype")>>), Sequence(<<Optional(NT("attribute-specifier-seq")), NT("access-specifier"), Optional(K("virtual")), NT("class-or-decltype")>>)>>)>>)),
    Reg("class-or-decltype", 2345,
        Diagram(<<Choice(0, <<Sequence(<<Optional(NT("nested-name-specifier")), NT("type-name")>>), Sequence(<<NT("nested-name-specifier"), K("template"), NT("simple-template-id")>>), NT("decltype-specifier")>>)>>)),
    Reg("access-specifier", 2355,
        Diagram(<<Choice(0, <<K("private"), K("protected"), K("public")>>)>>)),
    Reg("ctor-initializer", 2359,
        Diagram(<<Sequence(<<T(":"), NT("mem-initializer-list")>>)>>)),
    Reg("mem-initializer-list", 2363,
        Diagram(<<Sequence(<<NT("mem-initializer"), Optional(T("...")), ZeroOrMore(Sequence(<<T(","), NT("mem-initializer"), Optional(T("..."))>>))>>)>>)),
    Reg("mem-initializer", 2373,
        Diagram(<<Choice(0, <<Sequence(<<NT("mem-initializer-id"), T("("), Optional(NT("expression-list")), T(")")>>), Sequence(<<NT("mem-initializer-id"), NT("braced-init-list")>>)>>)>>)),
    Reg("mem-initializer-id", 2382,
        Diagram(<<Choice(0, <<NT("class-or-decltype"), NT("identifier")>>)>>)),
    Reg("operator-function-id", 2393,
        Diagram(<<Sequence(<<K("operator"), NT("operator")>>)>>)),
    Reg("operator", 2399,
        Diagram(<<Choice(0, <<K("new"), K("delete"), T("new[]"), T("delete[]"), K("co_await"), T("()"), T("[]"), T("->"), T("->*"), T("~"), T("!"), T("+"), T("-"), T("*"), T("/"), T("%"), T("^"), T("&"), T("|"), T("="), T("+="), T("-="), T("*="), T("/="), T("%="), T("^="), T("&="), T("|="), T("=="), T("!="), T("<"), T(">"), T("<="), T(">="), T("<=>"), T("&&"), T("||"), T("<<"), T(">>"), T("<<="), T(">>="), T("++"), T("--"), T(",")>>)>>)),
    Reg("literal-operator-id", 2412,
        Diagram(<<Choice(0, <<Sequence(<<K("operator"), NT("string-literal"), NT("identifier")>>), Sequence(<<K("operator"), NT("user-defined-string-literal")>>)>>)>>)),
    Reg("template-declaration", 2423,
        Diagram(<<Choice(0, <<Sequence(<<NT("template-head"), NT("declaration")>>), Sequence(<<NT("template-head"), NT("concept-definition")>>)>>)>>)),
    Reg("template-head", 2432,
        Diagram(<<Sequence(<<K("template"), T("<"), NT("template-parameter-list"), T(">"), Optional(NT("requires-clause"))>>)>>)),
    Reg("template-parameter-list", 2438,
        Diagram(<<Sequence(<<NT("template-parameter"), ZeroOrMore(Sequence(<<T(","), NT("template-parameter")>>))>>)>>)),
    Reg("requires-clause", 2444,
        Diagram(<<Sequence(<<K("requires"), NT("constraint-logical-or-expression")>>)>>)),
    Reg("constraint-logical-or-expression", 2450,
        Diagram(<<Sequence(<<NT("constraint-logical-and-expression"), ZeroOrMore(Sequence(<<T("||"), NT("constraint-logical-and-expression")>>))>>)>>)),
    Reg("constraint-logical-and-expression", 2459,
        Diagram(<<Sequence(<<NT("primary-expression"), ZeroOrMore(Sequence(<<T("&&"), NT("primary-expression")>>))>>)>>)),
    Reg("template-parameter", 2468,
        Diagram(<<Choice(0, <<NT("type-parameter"), NT("parameter-declaration")>>)>>)),
    Reg("type-parameter", 2477,
        Diagram(<<Choice(0, <<Sequence(<<NT("type-parameter-key"), Optional(T("...")), Optional(NT("identifier"))>>), Sequence(<<NT("type-parameter-key"), Optional(NT("identifier")), T("="), NT("type-id")>>), Sequence(<<NT("type-constraint"), Optional(T("...")), Optional(NT("identifier"))>>), Sequence(<<NT("type-constraint"), Optional(NT("identifier")), T("="), NT("type-id")>>), Sequence(<<NT("template-head"), NT("type-parameter-key"), Optional(T("...")), Optional(NT("identifier"))>>), Sequence(<<NT("template-head"), NT("type-parameter-key"), Optional(NT("identifier")), T("="), NT("id-expression")>>)>>)>>)),
    Reg("type-parameter-key", 2490,
        Diagram(<<Choice(0, <<K("class"), K("typename")>>)>>)),
    Reg("type-constraint", 2494,
        Diagram(<<Choice(0, <<Sequence(<<Optional(NT("nested-name-specifier")), NT("concept-name")>>), Sequence(<<Optional(NT("nested-name-specifier")), NT("concept-name"), T("<"), Optional(NT("template-argument-list")), T(">")>>)>>)>>)),
    Reg("simple-template-id", 2503,
        Diagram(<<Sequence(<<NT("template-name"), T("<"), Optional(NT("template-argument-list")), T(">")>>)>>)),
    Reg("template-id", 2509,
        Diagram(<<Choice(0, <<NT("simple-template-id"), Sequence(<<NT("operator-function-id"), T("<"), Optional(NT("template-argument-list")), T(">")>>), Sequence(<<NT("literal-operator-id"), T("<"), Optional(NT("template-argument-list")), T(">")>>)>>)>>)),
    Reg("template-argument-list", 2519,
        Diagram(<<Sequence(<<NT("template-argument"), Optional(T("...")), ZeroOrMore(Sequence(<<T(","), NT("template-argument"), Optional(T("..."))>>))>>)>>)),
    Reg("template-argument", 2529,
        Diagram(<<Choice(0, <<NT("constant-expression"), NT("type-id"), NT("id-expression")>>)>>)),
    Reg("constraint-expression", 2539,
        Diagram(<<NT("logical-or-expression")>>)),
    Reg("deduction-guide", 2543,
        Diagram(<<Sequence(<<Optional(NT("explicit-specifier")), NT("template-name"), T("("), NT("parameter-declaration-clause"), T(")"), T("->"), NT("simple-template-id"), T(";")>>)>>)),
    Reg("concept-definition", 2558,
        Diagram(<<Sequence(<<K("concept"), NT("concept-name"), Optional(NT("attribute-specifier-seq")), T("="), NT("constraint-expression"), T(";")>>)>>)),
    Reg("concept-name", 2564,
        Diagram(<<NT("identifier")>>)),
    Reg("typename-specifier", 2568,
        Diagram(<<Choice(0, <<Sequence(<<K("typename"), NT("nested-name-specifier"), NT("identifier")>>), Sequence(<<K("typename"), NT("nested-name-specifier"), Optional(K("template")), NT("simple-template-id")>>)>>)>>)),
    Reg("explicit-instantiation", 2577,
        Diagram(<<Sequence(<<Optional(K("extern")), K("template"), NT("declaration")>>)>>)),
    Reg("explicit-specialization", 2583,
        Diagram(<<Sequence(<<K("template"), T("<"), T(">"), NT("declaration")>>)>>)),
    Reg("try-block", 2591,
        Diagram(<<Sequence(<<K("try"), NT("compound-statement"), NT("handler-seq")>>)>>)),
    Reg("function-try-block", 2597,
        Diagram(<<Sequence(<<K("try"), Optional(NT("ctor-initializer")), NT("compound-statement"), NT("handler-seq")>>)>>)),
    Reg("handler-seq", 2603,
        Diagram(<<OneOrMore(NT("handler"))>>)),
    Reg("handler", 2607,
        Diagram(<<Sequence(<<K("catch"), T("("), NT("exception-declaration"), T(")"), NT("compound-statement")>>)>>)),
    Reg("exception-declaration", 2613,
        Diagram(<<Choice(0, <<Sequence(<<Optional(NT("attribute-specifier-seq")), NT("type-specifier-seq"), NT("declarator")>>), Sequence(<<Optional(NT("attribute-specifier-seq")), NT("type-specifier-seq"), Optional(NT("abstract-declarator"))>>), T("...")>>)>>)),
    Reg("noexcept-specifier", 2623,
        Diagram(<<Choice(0, <<Sequence(<<K("noexcept"), T("("), NT("constant-expression"), T(")")>>), K("noexcept")>>)>>)),
    Reg("preprocessing-file", 2634,
        Diagram(<<Choice(0, <<Optional(NT("group")), NT("module-file")>>)>>)),
    Reg("module-file", 2643,
        Diagram(<<Sequence(<<Optional(NT("pp-global-module-fragment")), NT("pp-module"), Optional(NT("group")), Optional(NT("pp-private-module-fragment"))>>)>>)),
    Reg("pp-global-module-fragment", 2654,
        Diagram(<<Sequence(<<K("module"), T(";"), NT("new-line"), Optional(NT("group"))>>)>>)),
    Reg("pp-private-module-fragment", 2660,
        Diagram(<<Sequence(<<K("module"), T(":"), K("private"), T(";"), NT("new-line"), Optional(NT("group"))>>)>>)),
    Reg("group", 2666,
        Diagram(<<OneOrMore(NT("group-part"))>>)),
    Reg("group-part", 2670,
        Diagram(<<Choice(0, <<NT("control-line"), NT("if-section"), NT("text-line"), Sequence(<<T("#"), NT("conditionally-supported-directive")>>)>>)>>)),
    Reg("control-line", 2681,
        Diagram(<<Choice(0, <<Sequence(<<T("#"), K("include"), NT("pp-tokens"), NT("new-line")>>), NT("pp-import"), Sequence(<<T("#"), K("define"), NT("identifier"), NT("replacement-list"), NT("new-line")>>), Sequence(<<T("#"), K("define"), NT("identifier"), NT("lparen"), Optional(NT("identifier-list")), T(")"), NT("replacement-list"), NT("new-line")>>), Sequence(<<T("#"), K("define"), NT("identifier"), NT("lparen"), T("..."), T(")"), NT("replacement-list"), NT("new-line")>>), Sequence(<<T("#"), K("define"), NT("identifier"), NT("lparen"), NT("identifier-list"), T(","), T("..."), T(")"), NT("replacement-list"), NT("new-line")>>), Sequence(<<T("#"), K("undef"), NT("identifier"), NT("new-line")>>), Sequence(<<T("#"), K("line"), NT("pp-tokens"), NT("new-line")>>), Sequence(<<T("#"), K("error"), Optional(NT("pp-tokens")), NT("new-line")>>), Sequence(<<T("#"), K("warning"), Optional(NT("pp-tokens")), NT("new-line")>>), Sequence(<<T("#"), K("pragma"), Optional(NT("pp-tokens")), NT("new-line")>>), Sequence(<<T("#"), NT("new-line")>>)>>)>>)),
    Reg("if-section", 2700,
        Diagram(<<Sequence(<<NT("if-group"), Optional(NT("elif-groups")), Optional(NT("else-group")), NT("endif-line")>>)>>)),
    Reg("if-group", 2706,
        Diagram(<<Choice(0, <<Sequence(<<T("#"), K("if"), NT("constant-expression"), NT("new-line"), Optional(NT("group"))>>), Sequence(<<T("#"), K("ifdef"), NT("identifier"), NT("new-line"), Optional(NT("group"))>>), Sequence(<<T("#"), K("ifndef"), NT("identifier"), NT("new-line"), Optional(NT("group"))>>)>>)>>)),
    Reg("elif-groups", 2716,
        Diagram(<<OneOrMore(NT("elif-group"))>>)),
    Reg("elif-group", 2720,
        Diagram(<<Choice(0, <<Sequence(<<T("#"), K("elif"), NT("constant-expression"), NT("new-line"), Optional(NT("group"))>>), Sequence(<<T("#"), K("elifdef"), NT("identifier"), NT("new-line"), Optional(NT("group"))>>), Sequence(<<T("#"), K("elifndef"), NT("identifier"), NT("new-line"), Optional(NT("group"))>>)>>)>>)),
    Reg("else-group", 2730,
        Diagram(<<Sequence(<<T("#"), K("else"), NT("new-line"), Optional(NT("group"))>>)>>)),
    Reg("endif-line", 2736,
        Diagram(<<Sequence(<<T("#"), K("endif"), NT("new-line")>>)>>)),
    Reg("text-line", 2740,
        Diagram(<<Sequence(<<Optional(NT("pp-tokens")), NT("new-line")>>)>>)),
    Reg("conditionally-supported-directive", 2744,
        Diagram(<<Sequence(<<NT("pp-tokens"), NT("new-line")>>)>>)),
    Reg("lparen", 2748,
        Diagram(<<Comment("( not preceded by whitespace")>>)),
    Reg("identifier-list", 2752,
        Diagram(<<Sequence(<<NT("identifier"), ZeroOrMore(Sequence(<<T(","), NT("identifier")>>))>>)>>)),
    Reg("replacement-list", 2758,
        Diagram(<<Optional(NT("pp-tokens"))>>)),
    Reg("pp-tokens", 2762,
        Diagram(<<OneOrMore(NT("preprocessing-token"))>>)),
    Reg("new-line", 2766,
        Diagram(<<Comment("new-line character")>>)),
    Reg("defined-macro-expression", 2770,
        Diagram(<<Choice(0, <<Sequence(<<K("defined"), NT("identifier")>>), Sequence(<<K("defined"), T("("), NT("identifier"), T(")")>>)>>)>>)),
    Reg("h-preprocessing-token", 2779,
        Diagram(<<Comment("any preprocessing-token except >")>>)),
    Reg("h-pp-tokens", 2783,
        Diagram(<<OneOrMore(NT("h-preprocessing-token"))>>)),
    Reg("header-name-tokens", 2787,
        Diagram(<<Choice(0, <<NT("string-literal"), Sequence(<<T("<"), NT("h-pp-tokens"), T(">")>>)>>)>>)),
    Reg("has-include-expression", 2796,
        Diagram(<<Choice(0, <<Sequence(<<T("__has_include"), T("("), NT("header-name"), T(")")>>), Sequence(<<T("__has_include"), T("("), NT("header-name-tokens"), T(")")>>)>>)>>)),
    Reg("has-attribute-expression", 2805,
        Diagram(<<Sequence(<<T("__has_cpp_attribute"), T("("), NT("pp-tokens"), T(")")>>)>>)),
    Reg("pp-module", 2811,
        Diagram(<<Sequence(<<Optional(K("export")), K("module"), Optional(NT("pp-tokens")), T(";"), NT("new-line")>>)>>)),
    Reg("pp-import", 2817,
        Diagram(<<Choice(0, <<Sequence(<<Optional(K("export")), K("import"), NT("header-name"), Optional(NT("pp-tokens")), T(";"), NT("new-line")>>), Sequence(<<Optional(K("export")), K("import"), NT("header-name-tokens"), Optional(NT("pp-tokens")), T(";"), NT("new-line")>>), Sequence(<<Optional(K("export")), K("import"), NT("pp-tokens"), T(";"), NT("new-line")>>)>>)>>)),
    Reg("va-opt-replacement", 2827,
        Diagram(<<Sequence(<<T("__VA_OPT__"), T("("), Optional(NT("pp-tokens")), T(")")>>)>>))
    >>

SECTION_ORDER_initial ==
    <<
        "keywords", "lexical", "literals", "basics", "expressions", "statements",
        "declarations", "modules", "classes", "overloading", "templates", "exceptions",
        "preprocessing"
    >>

SECTION_TITLES_initial ==
    [
      keywords |-> "A.2 Keywords [gram.key]",
      lexical |-> "A.3 Lexical Conventions [gram.lex]",
      literals |-> "A.3 Literals",
      basics |-> "A.4 Basics [gram.basic]",
      expressions |-> "A.5 Expressions [gram.expr]",
      statements |-> "A.6 Statements [gram.stmt]",
      declarations |-> "A.7 Declarations [gram.dcl]",
      modules |-> "A.8 Modules [gram.module]",
      classes |-> "A.9 Classes [gram.class]",
      overloading |-> "A.10 Overloading [gram.over]",
      templates |-> "A.11 Templates [gram.temp]",
      exceptions |-> "A.12 Exception Handling [gram.except]",
      preprocessing |-> "A.13 Preprocessing [gram.cpp]"
    ]

SECTION_RULES_initial ==
    [
      keywords |-> <<
        "typedef-name", "namespace-name", "namespace-alias", "class-name", "enum-name",
        "template-name"
      >>,
      lexical |-> <<
        "n-char", "n-char-sequence", "named-universal-character", "hex-quad",
        "simple-hexadecimal-digit-sequence", "universal-character-name", "preprocessing-token",
        "token", "header-name", "h-char-sequence", "h-char", "q-char-sequence", "q-char",
        "pp-number", "identifier", "identifier-start", "identifier-continue", "nondigit",
        "digit", "keyword", "preprocessing-op-or-punc", "preprocessing-operator",
        "operator-or-punctuator"
      >>,
      literals |-> <<
        "literal", "integer-literal", "binary-literal", "octal-literal", "decimal-literal",
        "hexadecimal-literal", "binary-digit", "octal-digit", "nonzero-digit",
        "hexadecimal-prefix", "hexadecimal-digit-sequence", "hexadecimal-digit",
        "integer-suffix", "unsigned-suffix", "long-suffix", "long-long-suffix", "size-suffix",
        "character-literal", "encoding-prefix", "c-char-sequence", "c-char", "basic-c-char",
        "escape-sequence", "simple-escape-sequence", "simple-escape-sequence-char",
        "numeric-escape-sequence", "simple-octal-digit-sequence", "octal-escape-sequence",
        "hexadecimal-escape-sequence", "conditional-escape-sequence",
        "conditional-escape-sequence-char", "floating-point-literal",
        "decimal-floating-point-literal", "hexadecimal-floating-point-literal",
        "fractional-constant", "hexadecimal-fractional-constant", "exponent-part",
        "binary-exponent-part", "sign", "digit-sequence", "floating-point-suffix",
        "string-literal", "s-char-sequence", "s-char", "basic-s-char", "raw-string",
        "r-char-sequence", "r-char", "d-char-sequence", "d-char", "boolean-literal",
        "pointer-literal", "user-defined-literal", "user-defined-integer-literal",
        "user-defined-floating-point-literal", "user-defined-string-literal",
        "user-defined-character-literal", "ud-suffix"
      >>,
      basics |-> <<
        "translation-unit"
      >>,
      expressions |-> <<
        "primary-expression", "id-expression", "unqualified-id", "qualified-id",
        "nested-name-specifier", "lambda-expression", "lambda-introducer", "lambda-declarator",
        "lambda-specifier", "lambda-specifier-seq", "lambda-capture", "capture-default",
        "capture-list", "capture", "simple-capture", "init-capture", "fold-expression",
        "fold-operator", "requires-expression", "requirement-parameter-list",
        "requirement-body", "requirement-seq", "requirement", "simple-requirement",
        "type-requirement", "compound-requirement", "return-type-requirement",
        "nested-requirement", "postfix-expression", "expression-list", "unary-expression",
        "unary-operator", "await-expression", "noexcept-expression", "new-expression",
        "new-placement", "new-type-id", "new-declarator", "noptr-new-declarator",
        "new-initializer", "delete-expression", "cast-expression", "pm-expression",
        "multiplicative-expression", "additive-expression", "shift-expression",
        "compare-expression", "relational-expression", "equality-expression", "and-expression",
        "exclusive-or-expression", "inclusive-or-expression", "logical-and-expression",
        "logical-or-expression", "conditional-expression", "yield-expression",
        "throw-expression", "assignment-expression", "assignment-operator", "expression",
        "constant-expression"
      >>,
      statements |-> <<
        "statement", "init-statement", "condition", "label", "labeled-statement",
        "expression-statement", "compound-statement", "statement-seq", "label-seq",
        "selection-statement", "iteration-statement", "for-range-declaration",
        "for-range-initializer", "jump-statement", "coroutine-return-statement",
        "declaration-statement"
      >>,
      declarations |-> <<
        "declaration-seq", "declaration", "name-declaration", "special-declaration",
        "block-declaration", "nodeclspec-function-declaration", "alias-declaration",
        "simple-declaration", "static_assert-declaration", "empty-declaration",
        "attribute-declaration", "decl-specifier", "decl-specifier-seq",
        "storage-class-specifier", "function-specifier", "explicit-specifier", "type-specifier",
        "type-specifier-seq", "defining-type-specifier", "defining-type-specifier-seq",
        "simple-type-specifier", "type-name", "elaborated-type-specifier", "decltype-specifier",
        "placeholder-type-specifier", "init-declarator-list", "init-declarator", "declarator",
        "ptr-declarator", "noptr-declarator", "parameters-and-qualifiers",
        "trailing-return-type", "ptr-operator", "cv-qualifier-seq", "cv-qualifier",
        "ref-qualifier", "declarator-id", "type-id", "defining-type-id", "abstract-declarator",
        "ptr-abstract-declarator", "noptr-abstract-declarator", "abstract-pack-declarator",
        "noptr-abstract-pack-declarator", "parameter-declaration-clause",
        "parameter-declaration-list", "parameter-declaration", "initializer",
        "brace-or-equal-initializer", "initializer-clause", "braced-init-list",
        "initializer-list", "designated-initializer-list", "designated-initializer-clause",
        "designator", "expr-or-braced-init-list", "function-definition", "function-body",
        "enum-specifier", "enum-head", "enum-head-name", "opaque-enum-declaration", "enum-key",
        "enum-base", "enumerator-list", "enumerator-definition", "enumerator",
        "using-enum-declaration", "using-enum-declarator", "namespace-definition",
        "named-namespace-definition", "unnamed-namespace-definition",
        "nested-namespace-definition", "enclosing-namespace-specifier", "namespace-body",
        "namespace-alias-definition", "qualified-namespace-specifier", "using-directive",
        "using-declaration", "using-declarator-list", "using-declarator", "asm-declaration",
        "linkage-specification", "attribute-specifier-seq", "attribute-specifier",
        "alignment-specifier", "attribute-using-prefix", "attribute-list", "attribute",
        "attribute-token", "attribute-scoped-token", "attribute-namespace",
        "attribute-argument-clause", "balanced-token-seq", "balanced-token"
      >>,
      modules |-> <<
        "module-declaration", "module-name", "module-partition", "module-name-qualifier",
        "export-declaration", "module-import-declaration", "global-module-fragment",
        "private-module-fragment", "import-keyword", "module-keyword", "export-keyword"
      >>,
      classes |-> <<
        "class-specifier", "class-head", "class-head-name", "class-virt-specifier", "class-key",
        "member-specification", "member-declaration", "member-declarator-list",
        "member-declarator", "virt-specifier-seq", "virt-specifier", "pure-specifier",
        "conversion-function-id", "conversion-type-id", "conversion-declarator", "base-clause",
        "base-specifier-list", "base-specifier", "class-or-decltype", "access-specifier",
        "ctor-initializer", "mem-initializer-list", "mem-initializer", "mem-initializer-id"
      >>,
      overloading |-> <<
        "operator-function-id", "operator", "literal-operator-id"
      >>,
      templates |-> <<
        "template-declaration", "template-head", "template-parameter-list", "requires-clause",
        "constraint-logical-or-expression", "constraint-logical-and-expression",
        "template-parameter", "type-parameter", "type-parameter-key", "type-constraint",
        "simple-template-id", "template-id", "template-argument-list", "template-argument",
        "constraint-expression", "deduction-guide", "concept-definition", "concept-name",
        "typename-specifier", "explicit-instantiation", "explicit-specialization"
      >>,
      exceptions |-> <<
        "try-block", "function-try-block", "handler-seq", "handler", "exception-declaration",
        "noexcept-specifier"
      >>,
      preprocessing |-> <<
        "preprocessing-file", "module-file", "pp-global-module-fragment",
        "pp-private-module-fragment", "group", "group-part", "control-line", "if-section",
        "if-group", "elif-groups", "elif-group", "else-group", "endif-line", "text-line",
        "conditionally-supported-directive", "lparen", "identifier-list", "replacement-list",
        "pp-tokens", "new-line", "defined-macro-expression", "h-preprocessing-token",
        "h-pp-tokens", "header-name-tokens", "has-include-expression",
        "has-attribute-expression", "pp-module", "pp-import", "va-opt-replacement"
      >>
    ]

----------------------------------------------------------------------------
(* cppGrammar.ts, revised copy: rules.set statements and section tables *)

rulesSetCalls_revised ==
    <<
    Reg("typedef-name", 1628,
        Diagram(<<Choice(0, <<NT("identifier"), NT("simple-template-id")>>)>>)),
    Reg("namespace-name", 1637,
        Diagram(<<Choice(0, <<NT("identifier"), NT("namespace-alias")>>)>>)),
    Reg("namespace-alias", 1646,
        Diagram(<<NT("identifier")>>)),
    Reg("class-name", 1650,
        Diagram(<<Choice(0, <<NT("identifier"), NT("simple-template-id")>>)>>)),
    Reg("enum-name", 1659,
        Diagram(<<NT("identifier")>>)),
    Reg("template-name", 1663,
        Diagram(<<NT("identifier")>>)),
    Reg("n-char", 1669,
        Diagram(<<Comment("any member of the translation character set except } or new-line")>>)),
    Reg("n-char-sequence", 1673,
        Diagram(<<OneOrMore(NT("n-char"))>>)),
    Reg("named-universal-character", 1677,
        Diagram(<<Sequence(<<T("\\N{"), NT("n-char-sequence"), T("}")>>)>>)),
    Reg("hex-quad", 1681,
        Diagram(<<Sequence(<<NT("hexadecimal-digit"), NT("hexadecimal-digit"), NT("hexadecimal-digit"), NT("hexadecimal-digit")>>)>>)),
    Reg("simple-hexadecimal-digit-sequence", 1692,
        Diagram(<<OneOrMore(NT("hexadecimal-digit"))>>)),
    Reg("universal-character-name", 1696,
        Diagram(<<Choice(0, <<Sequence(<<T("\\u"), NT("hex-quad")>>), Sequence(<<T("\\U"), NT("hex-quad"), NT("hex-quad")>>), Sequence(<<T("\\u{"), NT("simple-hexadecimal-digit-sequence"), T("}")>>), NT("named-universal-character")>>)>>)),
    Reg("preprocessing-token", 1707,
        Diagram(<<Choice(0, <<NT("header-name"), NT("import-keyword"), NT("module-keyword"), NT("export-keyword"), NT("identifier"), NT("pp-number"), NT("character-literal"), NT("user-defined-character-literal"), NT("string-literal"), NT("user-defined-string-literal"), NT("preprocessing-op-or-punc"), Comment("other non-whitespace")>>)>>)),
    Reg("token", 1726,
        Diagram(<<Choice(0, <<NT("identifier"), NT("keyword"), NT("literal"), NT("operator-or-punctuator")>>)>>)),
    Reg("header-name", 1737,
        Diagram(<<Choice(0, <<Sequence(<<T("<"), NT("h-char-sequence"), T(">")>>), Sequence(<<T("\""), NT("q-char-sequence"), T("\"")>>)>>)>>)),
    Reg("h-char-sequence", 1746,
        Diagram(<<OneOrMore(NT("h-char"))>>)),
    Reg("h-char", 1750,
        Diagram(<<Comment("any character except new-line and >")>>)),
    Reg("q-char-sequence", 1754,
        Diagram(<<OneOrMore(NT("q-char"))>>)),
    Reg("q-char", 1758,
        Diagram(<<Comment("any character except new-line and \"")>>)),
    Reg("pp-number", 1762,
        Diagram(<<Choice(0, <<NT("digit"), Sequence(<<T("."), NT("digit")>>)>>), ZeroOrMore(Choice(0, <<NT("identifier-continue"), Sequence(<<T("'"), NT("digit")>>), Sequence(<<T("'"), NT("nondigit")>>), Sequence(<<Choice(0, <<T("e"), T("E"), T("p"), T("P")>>), NT("sign")>>), T(".")>>))>>)),
    Reg("identifier", 1780,
        Diagram(<<Sequence(<<NT("identifier-start"), ZeroOrMore(NT("identifier-continue"))>>)>>)),
    Reg("identifier-start", 1789,
        Diagram(<<Choice(0, <<NT("nondigit"), Comment("XID_Start character")>>)>>)),
    Reg("identifier-continue", 1798,
        Diagram(<<Choice(0, <<NT("digit"), NT("nondigit"), Comment("XID_Continue character")>>)>>)),
    Reg("nondigit", 1808,
        Diagram(<<Choice(0, <<T("a-z"), T("A-Z"), T("_")>>)>>)),
    Reg("digit", 1818,
        Diagram(<<T("0-9")>>)),
    Reg("keyword", 1822,
        Diagram(<<Choice(0, <<Comment("any identifier listed in Table 5"), NT("import-keyword"), NT("module-keyword"), NT("export-keyword")>>)>>)),
    Reg("preprocessing-op-or-punc", 1833,
        Diagram(<<Choice(0, <<NT("preprocessing-operator"), NT("operator-or-punctuator")>>)>>)),
    Reg("preprocessing-operator", 1842,
        Diagram(<<Choice(0, <<T("#"), T("##"), T("%:"), T("%:%:")>>)>>)),
    Reg("operator-or-punctuator", 1848,
        Diagram(<<Stack(<<Choice(0, <<T("{"), T("}"), T("["), T("]"), T("("), T(")"), T("<:"), T(":>"), T("<%"), T("%>")>>), Choice(0, <<T(";"), T(":"), T("..."), T("?"), T("::"), T("."), T(".*"), T("->"), T("->*"), T("~")>>), Choice(0, <<T("!"), T("+"), T("-"), T("*"), T("/"), T("%"), T("^"), T("&"), T("|")>>), Choice(0, <<T("="), T("+="), T("-="), T("*="), T("/="), T("%="), T("^="), T("&="), T("|=")>>), Choice(0, <<T("=="), T("!="), T("<"), T(">"), T("<="), T(">="), T("<=>"), T("&&"), T("||")>>), Choice(0, <<T("<<"), T(">>"), T("<<="), T(">>="), T("++"), T("--"), T(",")>>)>>)>>)),
    Reg("literal", 1863,
        Diagram(<<Choice(0, <<NT("integer-literal"), NT("character-literal"), NT("floating-point-literal"), NT("string-literal"), NT("boolean-literal"), NT("pointer-literal"), NT("user-defined-literal")>>)>>)),
    Reg("integer-literal", 1877,
        Diagram(<<Choice(0, <<NT("binary-literal"), NT("octal-literal"), NT("decimal-literal"), NT("hexadecimal-literal")>>), Optional(NT("integer-suffix"))>>)),
    Reg("binary-literal", 1889,
        Diagram(<<Choice(0, <<T("0b"), T("0B")>>), NT("binary-digit"), ZeroOrMore(Sequence(<<Optional(T("'")), NT("binary-digit")>>))>>)),
    Reg("octal-literal", 1897,
        Diagram(<<T("0"), ZeroOrMore(Sequence(<<Optional(T("'")), NT("octal-digit")>>))>>)),
    Reg("decimal-literal", 1904,
        Diagram(<<NT("nonzero-digit"), ZeroOrMore(Sequence(<<Optional(T("'")), NT("digit")>>))>>)),
    Reg("hexadecimal-literal", 1911,
        Diagram(<<NT("hexadecimal-prefix"), NT("hexadecimal-digit-sequence")>>)),
    Reg("binary-digit", 1918,
        Diagram(<<Choice(0, <<T("0"), T("1")>>)>>)),
    Reg("octal-digit", 1922,
        Diagram(<<T("0-7")>>)),
    Reg("nonzero-digit", 1926,
        Diagram(<<T("1-9")>>)),
    Reg("hexadecimal-prefix", 1930,
        Diagram(<<Choice(0, <<T("0x"), T("0X")>>)>>)),
    Reg("hexadecimal-digit-sequence", 1934,
        Diagram(<<NT("hexadecimal-digit"), ZeroOrMore(Sequence(<<Optional(T("'")), NT("hexadecimal-digit")>>))>>)),
    Reg("hexadecimal-digit", 1941,
        Diagram(<<Choice(0, <<T("0-9"), T("a-f"), T("A-F")>>)>>)),
    Reg("integer-suffix", 1945,
        Diagram(<<Choice(0, <<Sequence(<<NT("unsigned-suffix"), Optional(Choice(0, <<NT("long-suffix"), NT("long-long-suffix"), NT("size-suffix")>>))>>), Sequence(<<NT("long-suffix"), Optional(NT("unsigned-suffix"))>>), Sequence(<<NT("long-long-suffix"), Optional(NT("unsigned-suffix"))>>), Sequence(<<NT("size-suffix"), Optional(NT("unsigned-suffix"))>>)>>)>>)),
    Reg("unsigned-suffix", 1956,
        Diagram(<<Choice(0, <<T("u"), T("U")>>)>>)),
    Reg("long-suffix", 1960,
        Diagram(<<Choice(0, <<T("l"), T("L")>>)>>)),
    Reg("long-long-suffix", 1964,
        Diagram(<<Choice(0, <<T("ll"), T("LL")>>)>>)),
    Reg("size-suffix", 1968,
        Diagram(<<Choice(0, <<T("z"), T("Z")>>)>>)),
    Reg("character-literal", 1972,
        Diagram(<<Optional(NT("encoding-prefix")), T("'"), NT("c-char-sequence"), T("'")>>)),
    Reg("encoding-prefix", 1981,
        Diagram(<<Choice(0, <<T("u8"), T("u"), T("U"), T("L")>>)>>)),
    Reg("c-char-sequence", 1985,
        Diagram(<<OneOrMore(NT("c-char"))>>)),
    Reg("c-char", 1989,
        Diagram(<<Choice(0, <<NT("basic-c-char"), NT("escape-sequence"), NT("universal-character-name")>>)>>)),
    Reg("basic-c-char", 1999,
        Diagram(<<Comment("any character except ', \\, or new-line")>>)),
    Reg("escape-sequence", 2003,
        Diagram(<<Choice(0, <<NT("simple-escape-sequence"), NT("numeric-escape-sequence"), NT("conditional-escape-sequence")>>)>>)),
    Reg("simple-escape-sequence", 2013,
        Diagram(<<T("\\"), NT("simple-escape-sequence-char")>>)),
    Reg("simple-escape-sequence-char", 2020,
        Diagram(<<Choice(0, <<T("'"), T("\""), T("?"), T("\\"), T("a"), T("b"), T("f"), T("n"), T("r"), T("t"), T("v")>>)>>)),
    Reg("numeric-escape-sequence", 2026,
        Diagram(<<Choice(0, <<NT("octal-escape-sequence"), NT("hexadecimal-escape-sequence")>>)>>)),
    Reg("simple-octal-digit-sequence", 2035,
        Diagram(<<OneOrMore(NT("octal-digit"))>>)),
    Reg("octal-escape-sequence", 2039,
        Diagram(<<Choice(0, <<Sequence(<<T("\\"), NT("octal-digit"), Optional(NT("octal-digit")), Optional(NT("octal-digit"))>>), Sequence(<<T("\\o{"), NT("simple-octal-digit-sequence"), T("}")>>)>>)>>)),
    Reg("hexadecimal-escape-sequence", 2048,
        Diagram(<<Choice(0, <<Sequence(<<T("\\x"), NT("simple-hexadecimal-digit-sequence")>>), Sequence(<<T("\\x{"), NT("simple-hexadecimal-digit-sequence"), T("}")>>)>>)>>)),
    Reg("conditional-escape-sequence", 2057,
        Diagram(<<T("\\"), NT("conditional-escape-sequence-char")>>)),
    Reg("conditional-escape-sequence-char", 2064,
        Diagram(<<Comment("any basic char not octal-digit, escape-char, N, o, u, U, x")>>)),
    Reg("floating-point-literal", 2068,
        Diagram(<<Choice(0, <<NT("decimal-floating-point-literal"), NT("hexadecimal-floating-point-literal")>>)>>)),
    Reg("decimal-floating-point-literal", 2077,
        Diagram(<<Choice(0, <<Sequence(<<NT("fractional-constant"), Optional(NT("exponent-part"))>>), Sequence(<<NT("digit-sequence"), NT("exponent-part")>>)>>), Optional(NT("floating-point-suffix"))>>)),
    Reg("hexadecimal-floating-point-literal", 2087,
        Diagram(<<NT("hexadecimal-prefix"), Choice(0, <<NT("hexadecimal-fractional-constant"), NT("hexadecimal-digit-sequence")>>), NT("binary-exponent-part"), Optional(NT("floating-point-suffix"))>>)),
    Reg("fractional-constant", 2099,
        Diagram(<<Choice(0, <<Sequence(<<Optional(NT("digit-sequence")), T("."), NT("digit-sequence")>>), Sequence(<<NT("digit-sequence"), T(".")>>)>>)>>)),
    Reg("hexadecimal-fractional-constant", 2108,
        Diagram(<<Choice(0, <<Sequence(<<Optional(NT("hexadecimal-digit-sequence")), T("."), NT("hexadecimal-digit-sequence")>>), Sequence(<<NT("hexadecimal-digit-sequence"), T(".")>>)>>)>>)),
    Reg("exponent-part", 2117,
        Diagram(<<Choice(0, <<T("e"), T("E")>>), Optional(NT("sign")), NT("digit-sequence")>>)),
    Reg("binary-exponent-part", 2125,
        Diagram(<<Choice(0, <<T("p"), T("P")>>), Optional(NT("sign")), NT("digit-sequence")>>)),
    Reg("sign", 2133,
        Diagram(<<Choice(0, <<T("+"), T("-")>>)>>)),
    Reg("digit-sequence", 2137,
        Diagram(<<NT("digit"), ZeroOrMore(Sequence(<<Optional(T("'")), NT("digit")>>))>>)),
    Reg("floating-point-suffix", 2144,
        Diagram(<<Choice(0, <<T("f"), T("l"), T("f16"), T("f32"), T("f64"), T("f128"), T("bf16"), T("F"), T("L"), T("F16"), T("F32"), T("F64"), T("F128"), T("BF16")>>)>>)),
    Reg("string-literal", 2153,
        Diagram(<<Optional(NT("encoding-prefix")), Choice(0, <<Sequence(<<T("\""), Optional(NT("s-char-sequence")), T("\"")>>), Sequence(<<T("R"), NT("raw-string")>>)>>)>>)),
    Reg("s-char-sequence", 2163,
        Diagram(<<OneOrMore(NT("s-char"))>>)),
    Reg("s-char", 2167,
        Diagram(<<Choice(0, <<NT("basic-s-char"), NT("escape-sequence"), NT("universal-character-name")>>)>>)),
    Reg("basic-s-char", 2177,
        Diagram(<<Comment("any character except \", \\, or new-line")>>)),
    Reg("raw-string", 2181,
        Diagram(<<T("\""), Optional(NT("d-char-sequence")), T("("), Optional(NT("r-char-sequence")), T(")"), Optional(NT("d-char-sequence")), T("\"")>>)),
    Reg("r-char-sequence", 2193,
        Diagram(<<OneOrMore(NT("r-char"))>>)),
    Reg("r-char", 2197,
        Diagram(<<Comment("any character except ) followed by d-char-sequence and \"")>>)),
    Reg("d-char-sequence", 2201,
        Diagram(<<OneOrMore(NT("d-char"))>>)),
    Reg("d-char", 2205,
        Diagram(<<Comment("any basic char except space, (, ), \\, tab, newline")>>)),
    Reg("boolean-literal", 2209,
        Diagram(<<Choice(0, <<T("false"), T("true")>>)>>)),
    Reg("pointer-literal", 2213,
        Diagram(<<T("nullptr")>>)),
    Reg("user-defined-literal", 2217,
        Diagram(<<Choice(0, <<NT("user-defined-integer-literal"), NT("user-defined-floating-point-literal"), NT("user-defined-string-literal"), NT("user-defined-character-literal")>>)>>)),
    Reg("user-defined-integer-literal", 2228,
        Diagram(<<Choice(0, <<NT("decimal-literal"), NT("octal-literal"), NT("hexadecimal-literal"), NT("binary-literal")>>), NT("ud-suffix")>>)),
    Reg("user-defined-floating-point-literal", 2240,
        Diagram(<<Choice(0, <<Sequence(<<NT("fractional-constant"), Optional(NT("exponent-part"))>>), Sequence(<<NT("digit-sequence"), NT("exponent-part")>>), Sequence(<<NT("hexadecimal-prefix"), NT("hexadecimal-fractional-constant"), NT("binary-exponent-part")>>), Sequence(<<NT("hexadecimal-prefix"), NT("hexadecimal-digit-sequence"), NT("binary-exponent-part")>>)>>), NT("ud-suffix")>>)),
    Reg("user-defined-string-literal", 2252,
        Diagram(<<NT("string-literal"), NT("ud-suffix")>>)),
    Reg("user-defined-character-literal", 2256,
        Diagram(<<NT("character-literal"), NT("ud-suffix")>>)),
    Reg("ud-suffix", 2260,
        Diagram(<<NT("identifier")>>)),
    Reg("translation-unit", 2266,
        Diagram(<<Choice(0, <<Optional(NT("declaration-seq")), Sequence(<<Optional(NT("global-module-fragment")), NT("module-declaration"), Optional(NT("declaration-seq")), Optional(NT("private-module-fragment"))>>)>>)>>)),
    Reg("primary-expression", 2282,
        Diagram(<<Choice(0, <<NT("literal"), T("this"), Sequence(<<T("("), NT("expression"), T(")")>>), NT("id-expression"), NT("lambda-expression"), NT("fold-expression"), NT("requires-expression")>>)>>)),
    Reg("id-expression", 2296,
        Diagram(<<Choice(0, <<NT("unqualified-id"), NT("qualified-id")>>)>>)),
    Reg("unqualified-id", 2305,
        Diagram(<<Choice(0, <<NT("identifier"), NT("operator-function-id"), NT("conversion-function-id"), NT("literal-operator-id"), Sequence(<<T("~"), NT("type-name")>>), Sequence(<<T("~"), NT("decltype-specifier")>>), NT("template-id")>>)>>)),
    Reg("qualified-id", 2319,
        Diagram(<<NT("nested-name-specifier"), Optional(T("template")), NT("unqualified-id")>>)),
    Reg("nested-name-specifier", 2327,
        Diagram(<<Choice(0, <<T("::"), Sequence(<<NT("type-name"), T("::")>>), Sequence(<<NT("namespace-name"), T("::")>>), Sequence(<<NT("decltype-specifier"), T("::")>>)>>), ZeroOrMore(Choice(0, <<Sequence(<<NT("identifier"), T("::")>>), Sequence(<<Optional(T("template")), NT("simple-template-id"), T("::")>>)>>))>>)),
    Reg("lambda-expression", 2344,
        Diagram(<<NT("lambda-introducer"), Optional(Sequence(<<T("<"), NT("template-parameter-list"), T(">"), Optional(NT("requires-clause"))>>)), Optional(NT("attribute-specifier-seq")), NT("lambda-declarator"), NT("compound-statement")>>)),
    Reg("lambda-introducer", 2361,
        Diagram(<<T("["), Optional(NT("lambda-capture")), T("]")>>)),
    Reg("lambda-declarator", 2369,
        Diagram(<<Choice(0, <<Sequence(<<Optional(NT("lambda-specifier-seq")), Optional(NT("noexcept-specifier")), Optional(NT("attribute-specifier-seq")), Optional(NT("trailing-return-type"))>>), Sequence(<<T("("), NT("parameter-declaration-clause"), T(")"), Optional(NT("lambda-specifier-seq")), Optional(NT("noexcept-specifier")), Optional(NT("attribute-specifier-seq")), Optional(NT("trailing-return-type")), Optional(NT("requires-clause"))>>)>>)>>)),
    Reg("lambda-specifier", 2392,
        Diagram(<<Choice(0, <<T("consteval"), T("constexpr"), T("mutable"), T("static")>>)>>)),
    Reg("lambda-specifier-seq", 2403,
        Diagram(<<OneOrMore(NT("lambda-specifier"))>>)),
    Reg("lambda-capture", 2407,
        Diagram(<<Choice(0, <<NT("capture-default"), NT("capture-list"), Sequence(<<NT("capture-default"), T(","), NT("capture-list")>>)>>)>>)),
    Reg("capture-default", 2417,
        Diagram(<<Choice(0, <<T("&"), T("=")>>)>>)),
    Reg("capture-list", 2421,
        Diagram(<<NT("capture"), ZeroOrMore(Sequence(<<T(","), NT("capture")>>))>>)),
    Reg("capture", 2428,
        Diagram(<<Choice(0, <<NT("simple-capture"), NT("init-capture")>>)>>)),
    Reg("simple-capture", 2437,
        Diagram(<<Choice(0, <<Sequence(<<NT("identifier"), Optional(T("..."))>>), Sequence(<<T("&"), NT("identifier"), Optional(T("..."))>>), T("this"), Sequence(<<T("*"), T("this")>>)>>)>>)),
    Reg("init-capture", 2448,
        Diagram(<<Optional(T("...")), Optional(T("&")), NT("identifier"), NT("initializer")>>)),
    Reg("fold-expression", 2457,
        Diagram(<<T("("), Choice(0, <<Sequence(<<NT("cast-expression"), NT("fold-operator"), T("...")>>), Sequence(<<T("..."), NT("fold-operator"), NT("cast-expression")>>), Sequence(<<NT("cast-expression"), NT("fold-operator"), T("..."), NT("fold-operator"), NT("cast-expression")>>)>>), T(")")>>)),
    Reg("fold-operator", 2469,
        Diagram(<<Choice(0, <<T("+"), T("-"), T("*"), T("/"), T("%"), T("^"), T("&"), T("|"), T("<<"), T(">>"), T("+="), T("-="), T("*="), T("/="), T("%="), T("^="), T("&="), T("|="), T("<<="), T(">>="), T("="), T("=="), T("!="), T("<"), T(">"), T("<="), T(">="), T("&&"), T("||"), T(","), T(".*"), T("->*")>>)>>)),
    Reg("requires-expression", 2481,
        Diagram(<<T("requires"), Optional(NT("requirement-parameter-list")), NT("requirement-body")>>)),
    Reg("requirement-parameter-list", 2489,
        Diagram(<<T("("), NT("parameter-declaration-clause"), T(")")>>)),
    Reg("requirement-body", 2497,
        Diagram(<<T("{"), NT("requirement-seq"), T("}")>>)),
    Reg("requirement-seq", 2505,
        Diagram(<<OneOrMore(NT("requirement"))>>)),
    Reg("requirement", 2509,
        Diagram(<<Choice(0, <<NT("simple-requirement"), NT("type-requirement"), NT("compound-requirement"), NT("nested-requirement")>>)>>)),
    Reg("simple-requirement", 2520,
        Diagram(<<NT("expression"), T(";")>>)),
    Reg("type-requirement", 2524,
        Diagram(<<T("typename"), Optional(NT("nested-name-specifier")), NT("type-name"), T(";")>>)),
    Reg("compound-requirement", 2533,
        Diagram(<<T("{"), NT("expression"), T("}"), Optional(T("noexcept")), Optional(NT("return-type-requirement")), T(";")>>)),
    Reg("return-type-requirement", 2544,
        Diagram(<<T("->"), NT("type-constraint")>>)),
    Reg("nested-requirement", 2548,
        Diagram(<<T("requires"), NT("constraint-expression"), T(";")>>)),
    Reg("postfix-expression", 2552,
        Const("postfixSuffix", Choice(0, <<Sequence(<<T("["), Optional(NT("expression-list")), T("]")>>), Sequence(<<T("("), Optional(NT("expression-list")), T(")")>>), Sequence(<<T("."), Optional(T("template")), NT("id-expression")>>), Sequence(<<T("->"), Optional(T("template")), NT("id-expression")>>), T("++"), T("--")>>), Diagram(<<Choice(0, <<NT("primary-expression"), Sequence(<<NT("simple-type-specifier"), T("("), Optional(NT("expression-list")), T(")")>>), Sequence(<<NT("typename-specifier"), T("("), Optional(NT("expression-list")), T(")")>>), Sequence(<<NT("simple-type-specifier"), NT("braced-init-list")>>), Sequence(<<NT("typename-specifier"), NT("braced-init-list")>>), Sequence(<<T("dynamic_cast"), T("<"), NT("type-id"), T(">"), T("("), NT("expression"), T(")")>>), Sequence(<<T("static_cast"), T("<"), NT("type-id"), T(">"), T("("), NT("expression"), T(")")>>), Sequence(<<T("reinterpret_cast"), T("<"), NT("type-id"), T(">"), T("("), NT("expression"), T(")")>>), Sequence(<<T("const_cast"), T("<"), NT("type-id"), T(">"), T("("), NT("expression"), T(")")>>), Sequence(<<T("typeid"), T("("), Choice(0, <<NT("expression"), NT("type-id")>>), T(")")>>)>>), ZeroOrMore(Ref("postfixSuffix"))>>))),
    Reg("expression-list", 2579,
        Diagram(<<NT("initializer-list")>>)),
    Reg("unary-expression", 2583,
        Diagram(<<Choice(0, <<NT("postfix-expression"), Sequence(<<NT("unary-operator"), NT("cast-expression")>>), Sequence(<<T("++"), NT("cast-expression")>>), Sequence(<<T("--"), NT("cast-expression")>>), NT("await-expression"), Sequence(<<T("sizeof"), NT("unary-expression")>>), Sequence(<<T("sizeof"), T("("), NT("type-id"), T(")")>>), Sequence(<<T("sizeof"), T("..."), T("("), NT("identifier"), T(")")>>), Sequence(<<T("alignof"), T("("), NT("type-id"), T(")")>>), NT("noexcept-expression"), NT("new-expression"), NT("delete-expression")>>)>>)),
    Reg("unary-operator", 2602,
        Diagram(<<Choice(0, <<T("*"), T("&"), T("+"), T("-"), T("!"), T("~")>>)>>)),
    Reg("await-expression", 2606,
        Diagram(<<T("co_await"), NT("cast-expression")>>)),
    Reg("noexcept-expression", 2610,
        Diagram(<<T("noexcept"), T("("), NT("expression"), T(")")>>)),
    Reg("new-expression", 2614,
        Diagram(<<Optional(T("::")), T("new"), Optional(NT("new-placement")), Choice(0, <<NT("new-type-id"), Sequence(<<T("("), NT("type-id"), T(")")>>)>>), Optional(NT("new-initializer"))>>)),
    Reg("new-placement", 2627,
        Diagram(<<T("("), NT("expression-list"), T(")")>>)),
    Reg("new-type-id", 2631,
        Diagram(<<NT("type-specifier-seq"), Optional(NT("new-declarator"))>>)),
    Reg("new-declarator", 2635,
        Diagram(<<Choice(0, <<Sequence(<<NT("ptr-operator"), Optional(NT("new-declarator"))>>), NT("noptr-new-declarator")>>)>>)),
    Reg("noptr-new-declarator", 2644,
        Diagram(<<T("["), Optional(NT("expression")), T("]"), Optional(NT("attribute-specifier-seq")), ZeroOrMore(Sequence(<<T("["), NT("constant-expression"), T("]"), Optional(NT("attribute-specifier-seq"))>>))>>)),
    Reg("new-initializer", 2656,
        Diagram(<<Choice(0, <<Sequence(<<T("("), Optional(NT("expression-list")), T(")")>>), NT("braced-init-list")>>)>>)),
    Reg("delete-expression", 2665,
        Diagram(<<Optional(T("::")), T("delete"), Optional(Sequence(<<T("["), T("]")>>)), NT("cast-expression")>>)),
    Reg("cast-expression", 2674,
        Diagram(<<ZeroOrMore(Sequence(<<T("("), NT("type-id"), T(")")>>)), NT("unary-expression")>>)),
    Reg("pm-expression", 2681,
        Diagram(<<NT("cast-expression"), ZeroOrMore(Sequence(<<Choice(0, <<T(".*"), T("->*")>>), NT("cast-expression")>>))>>)),
    Reg("multiplicative-expression", 2698,
        Diagram(<<chain("pm-expression", <<"*", "/", "%">>)>>)),
    Reg("additive-expression", 2699,
        Diagram(<<chain("multiplicative-expression", <<"+", "-">>)>>)),
    Reg("shift-expression", 2700,
        Diagram(<<chain("additive-expression", <<"<<", ">>">>)>>)),
    Reg("compare-expression", 2701,
        Diagram(<<chain("shift-expression", <<"<=>">>)>>)),
    Reg("relational-expression", 2702,
        Diagram(<<chain("compare-expression", <<"<", ">", "<=", ">=">>)>>)),
    Reg("equality-expression", 2703,
        Diagram(<<chain("relational-expression", <<"==", "!=">>)>>)),
    Reg("and-expression", 2704,
        Diagram(<<chain("equality-expression", <<"&">>)>>)),
    Reg("exclusive-or-expression", 2705,
        Diagram(<<chain("and-expression", <<"^">>)>>)),
    Reg("inclusive-or-expression", 2706,
        Diagram(<<chain("exclusive-or-expression", <<"|">>)>>)),
    Reg("logical-and-expression", 2707,
        Diagram(<<chain("inclusive-or-expression", <<"&&">>)>>)),
    Reg("logical-or-expression", 2708,
        Diagram(<<chain("logical-and-expression", <<"||">>)>>)),
    Reg("conditional-expression", 2710,
        Diagram(<<NT("logical-or-expression"), Optional(Sequence(<<T("?"), NT("expression"), T(":"), NT("assignment-expression")>>))>>)),
    Reg("yield-expression", 2717,
        Diagram(<<T("co_yield"), Choice(0, <<NT("assignment-expression"), NT("braced-init-list")>>)>>)),
    Reg("throw-expression", 2727,
        Diagram(<<T("throw"), Optional(NT("assignment-expression"))>>)),
    Reg("assignment-expression", 2731,
        Diagram(<<Choice(0, <<NT("conditional-expression"), NT("yield-expression"), NT("throw-expression"), Sequence(<<NT("logical-or-expression"), NT("assignment-operator"), NT("initializer-clause")>>)>>)>>)),
    Reg("assignment-operator", 2742,
        Diagram(<<Choice(0, <<T("="), T("*="), T("/="), T("%="), T("+="), T("-="), T(">>="), T("<<="), T("&="), T("^="), T("|=")>>)>>)),
    Reg("expression", 2751,
        Diagram(<<NT("assignment-expression"), ZeroOrMore(Sequence(<<T(","), NT("assignment-expression")>>))>>)),
    Reg("constant-expression", 2758,
        Diagram(<<NT("conditional-expression")>>)),
    Reg("statement", 2764,
        Diagram(<<Choice(0, <<NT("labeled-statement"), Sequence(<<Optional(NT("attribute-specifier-seq")), NT("expression-statement")>>), Sequence(<<Optional(NT("attribute-specifier-seq")), NT("compound-statement")>>), Sequence(<<Optional(NT("attribute-specifier-seq")), NT("selection-statement")>>), Sequence(<<Optional(NT("attribute-specifier-seq")), NT("iteration-statement")>>), Sequence(<<Optional(NT("attribute-specifier-seq")), NT("jump-statement")>>), NT("declaration-statement"), Sequence(<<Optional(NT("attribute-specifier-seq")), NT("try-block")>>)>>)>>)),
    Reg("init-statement", 2779,
        Diagram(<<Choice(0, <<NT("expression-statement"), NT("simple-declaration"), NT("alias-declaration")>>)>>)),
    Reg("condition", 2789,
        Diagram(<<Choice(0, <<NT("expression"), Sequence(<<Optional(NT("attribute-specifier-seq")), NT("decl-specifier-seq"), NT("declarator"), NT("brace-or-equal-initializer")>>)>>)>>)),
    Reg("label", 2803,
        Diagram(<<Optional(NT("attribute-specifier-seq")), Choice(0, <<Sequence(<<NT("identifier"), T(":")>>), Sequence(<<T("case"), NT("constant-expression"), T(":")>>), Sequence(<<T("default"), T(":")>>)>>)>>)),
    Reg("labeled-statement", 2814,
        Diagram(<<NT("label"), NT("statement")>>)),
    Reg("expression-statement", 2818,
        Diagram(<<Optional(NT("expression")), T(";")>>)),
    Reg("compound-statement", 2822,
        Diagram(<<T("{"), Optional(NT("statement-seq")), Optional(NT("label-seq")), T("}")>>)),
    Reg("statement-seq", 2831,
        Diagram(<<OneOrMore(NT("statement"))>>)),
    Reg("label-seq", 2835,
        Diagram(<<OneOrMore(NT("label"))>>)),
    Reg("selection-statement", 2839,
        Diagram(<<Choice(0, <<Sequence(<<T("if"), Optional(T("constexpr")), T("("), Optional(NT("init-statement")), NT("condition"), T(")"), NT("statement"), Optional(Sequence(<<T("else"), NT("statement")>>))>>), Sequence(<<T("if"), Optional(T("!")), T("consteval"), NT("compound-statement"), Optional(Sequence(<<T("else"), NT("statement")>>))>>), Sequence(<<T("switch"), T("("), Optional(NT("init-statement")), NT("condition"), T(")"), NT("statement")>>)>>)>>)),
    Reg("iteration-statement", 2871,
        Diagram(<<Choice(0, <<Sequence(<<T("while"), T("("), NT("condition"), T(")"), NT("statement")>>), Sequence(<<T("do"), NT("statement"), T("while"), T("("), NT("expression"), T(")"), T(";")>>), Sequence(<<T("for"), T("("), NT("init-statement"), Optional(NT("condition")), T(";"), Optional(NT("expression")), T(")"), NT("statement")>>), Sequence(<<T("for"), T("("), Optional(NT("init-statement")), NT("for-range-declaration"), T(":"), NT("for-range-initializer"), T(")"), NT("statement")>>)>>)>>)),
    Reg("for-range-declaration", 2900,
        Diagram(<<Optional(NT("attribute-specifier-seq")), NT("decl-specifier-seq"), Choice(0, <<NT("declarator"), Sequence(<<Optional(NT("ref-qualifier")), T("["), NT("identifier-list"), T("]")>>)>>)>>)),
    Reg("for-range-initializer", 2911,
        Diagram(<<NT("expr-or-braced-init-list")>>)),
    Reg("jump-statement", 2915,
        Diagram(<<Choice(0, <<Sequence(<<T("break"), T(";")>>), Sequence(<<T("continue"), T(";")>>), Sequence(<<T("return"), Optional(NT("expr-or-braced-init-list")), T(";")>>), NT("coroutine-return-statement"), Sequence(<<T("goto"), NT("identifier"), T(";")>>)>>)>>)),
    Reg("coroutine-return-statement", 2927,
        Diagram(<<T("co_return"), Optional(NT("expr-or-braced-init-list")), T(";")>>)),
    Reg("declaration-statement", 2931,
        Diagram(<<NT("block-declaration")>>)),
    Reg("declaration-seq", 2937,
        Diagram(<<OneOrMore(NT("declaration"))>>)),
    Reg("declaration", 2941,
        Diagram(<<Choice(0, <<NT("name-declaration"), NT("special-declaration")>>)>>)),
    Reg("name-declaration", 2950,
        Diagram(<<Choice(0, <<NT("block-declaration"), NT("nodeclspec-function-declaration"), NT("function-definition"), NT("template-declaration"), NT("deduction-guide"), NT("linkage-specification"), NT("namespace-definition"), NT("empty-declaration"), NT("attribute-declaration"), NT("module-import-declaration")>>)>>)),
    Reg("special-declaration", 2967,
        Diagram(<<Choice(0, <<NT("explicit-instantiation"), NT("explicit-specialization"), NT("export-declaration")>>)>>)),
    Reg("block-declaration", 2977,
        Diagram(<<Choice(0, <<NT("simple-declaration"), NT("asm-declaration"), NT("namespace-alias-definition"), NT("using-declaration"), NT("using-enum-declaration"), NT("using-directive"), NT("static_assert-declaration"), NT("alias-declaration"), NT("opaque-enum-declaration")>>)>>)),
    Reg("nodeclspec-function-declaration", 2993,
        Diagram(<<Optional(NT("attribute-specifier-seq")), NT("declarator"), T(";")>>)),
    Reg("alias-declaration", 3001,
        Diagram(<<T("using"), NT("identifier"), Optional(NT("attribute-specifier-seq")), T("="), NT("defining-type-id"), T(";")>>)),
    Reg("simple-declaration", 3012,
        Diagram(<<Choice(0, <<Sequence(<<NT("decl-specifier-seq"), Optional(NT("init-declarator-list")), T(";")>>), Sequence(<<NT("attribute-specifier-seq"), NT("decl-specifier-seq"), NT("init-declarator-list"), T(";")>>), Sequence(<<Optional(NT("attribute-specifier-seq")), NT("decl-specifier-seq"), Optional(NT("ref-qualifier")), T("["), NT("identifier-list"), T("]"), NT("initializer"), T(";")>>)>>)>>)),
    Reg("static_assert-declaration", 3031,
        Diagram(<<T("static_assert"), T("("), NT("constant-expression"), Optional(Sequence(<<T(","), NT("string-literal")>>)), T(")"), T(";")>>)),
    Reg("empty-declaration", 3042,
        Diagram(<<T(";")>>)),
    Reg("attribute-declaration", 3046,
        Diagram(<<NT("attribute-specifier-seq"), T(";")>>)),
    Reg("decl-specifier", 3050,
        Diagram(<<Choice(0, <<NT("storage-class-specifier"), NT("defining-type-specifier"), NT("function-specifier"), T("friend"), T("typedef"), T("constexpr"), T("consteval"), T("constinit"), T("inline")>>)>>)),
    Reg("decl-specifier-seq", 3066,
        Diagram(<<NT("decl-specifier"), Choice(0, <<Optional(NT("attribute-specifier-seq")), NT("decl-specifier-seq")>>)>>)),
    Reg("storage-class-specifier", 3076,
        Diagram(<<Choice(0, <<T("static"), T("thread_local"), T("extern"), T("mutable")>>)>>)),
    Reg("function-specifier", 3087,
        Diagram(<<Choice(0, <<T("virtual"), NT("explicit-specifier")>>)>>)),
    Reg("explicit-specifier", 3096,
        Diagram(<<T("explicit"), Optional(Sequence(<<T("("), NT("constant-expression"), T(")")>>))>>)),
    Reg("type-specifier", 3103,
        Diagram(<<Choice(0, <<NT("simple-type-specifier"), NT("elaborated-type-specifier"), NT("typename-specifier"), NT("cv-qualifier")>>)>>)),
    Reg("type-specifier-seq", 3114,
        Diagram(<<NT("type-specifier"), Choice(0, <<Optional(NT("attribute-specifier-seq")), NT("type-specifier-seq")>>)>>)),
    Reg("defining-type-specifier", 3124,
        Diagram(<<Choice(0, <<NT("type-specifier"), NT("class-specifier"), NT("enum-specifier")>>)>>)),
    Reg("defining-type-specifier-seq", 3134,
        Diagram(<<NT("defining-type-specifier"), Choice(0, <<Optional(NT("attribute-specifier-seq")), NT("defining-type-specifier-seq")>>)>>)),
    Reg("simple-type-specifier", 3144,
        Diagram(<<Choice(0, <<Sequence(<<Optional(NT("nested-name-specifier")), NT("type-name")>>), Sequence(<<NT("nested-name-specifier"), T("template"), NT("simple-template-id")>>), NT("decltype-specifier"), NT("placeholder-type-specifier"), Sequence(<<Optional(NT("nested-name-specifier")), NT("template-name")>>), T("char"), T("char8_t"), T("char16_t"), T("char32_t"), T("wchar_t"), T("bool"), T("short"), T("int"), T("long"), T("signed"), T("unsigned"), T("float"), T("double"), T("void")>>)>>)),
    Reg("type-name", 3159,
        Diagram(<<Choice(0, <<NT("class-name"), NT("enum-name"), NT("typedef-name")>>)>>)),
    Reg("elaborated-type-specifier", 3169,
        Diagram(<<Choice(0, <<Sequence(<<NT("class-key"), Optional(NT("attribute-specifier-seq")), Optional(NT("nested-name-specifier")), NT("identifier")>>), Sequence(<<NT("class-key"), NT("simple-template-id")>>), Sequence(<<NT("class-key"), NT("nested-name-specifier"), Optional(T("template")), NT("simple-template-id")>>), Sequence(<<T("enum"), Optional(NT("nested-name-specifier")), NT("identifier")>>)>>)>>)),
    Reg("decltype-specifier", 3190,
        Diagram(<<T("decltype"), T("("), NT("expression"), T(")")>>)),
    Reg("placeholder-type-specifier", 3194,
        Diagram(<<Optional(NT("type-constraint")), Choice(0, <<T("auto"), Sequence(<<T("decltype"), T("("), T("auto"), T(")")>>)>>)>>)),
    Reg("init-declarator-list", 3204,
        Diagram(<<NT("init-declarator"), ZeroOrMore(Sequence(<<T(","), NT("init-declarator")>>))>>)),
    Reg("init-declarator", 3211,
        Diagram(<<NT("declarator"), Choice(0, <<Optional(NT("initializer")), NT("requires-clause")>>)>>)),
    Reg("declarator", 3221,
        Diagram(<<Choice(0, <<NT("ptr-declarator"), Sequence(<<NT("noptr-declarator"), NT("parameters-and-qualifiers"), NT("trailing-return-type")>>)>>)>>)),
    Reg("ptr-declarator", 3230,
        Diagram(<<ZeroOrMore(NT("ptr-operator")), NT("noptr-declarator")>>)),
    Reg("noptr-declarator", 3237,
        Diagram(<<Choice(0, <<Sequence(<<NT("declarator-id"), Optional(NT("attribute-specifier-seq"))>>), Sequence(<<T("("), NT("ptr-declarator"), T(")")>>)>>), ZeroOrMore(Choice(0, <<NT("parameters-and-qualifiers"), Sequence(<<T("["), Optional(NT("constant-expression")), T("]"), Optional(NT("attribute-specifier-seq"))>>)>>))>>)),
    Reg("parameters-and-qualifiers", 3252,
        Diagram(<<T("("), NT("parameter-declaration-clause"), T(")"), Optional(NT("cv-qualifier-seq")), Optional(NT("ref-qualifier")), Optional(NT("noexcept-specifier")), Optional(NT("attribute-specifier-seq"))>>)),
    Reg("trailing-return-type", 3264,
        Diagram(<<T("->"), NT("type-id")>>)),
    Reg("ptr-operator", 3268,
        Diagram(<<Choice(0, <<Sequence(<<T("*"), Optional(NT("attribute-specifier-seq")), Optional(NT("cv-qualifier-seq"))>>), Sequence(<<T("&"), Optional(NT("attribute-specifier-seq"))>>), Sequence(<<T("&&"), Optional(NT("attribute-specifier-seq"))>>), Sequence(<<NT("nested-name-specifier"), T("*"), Optional(NT("attribute-specifier-seq")), Optional(NT("cv-qualifier-seq"))>>)>>)>>)),
    Reg("cv-qualifier-seq", 3279,
        Diagram(<<OneOrMore(NT("cv-qualifier"))>>)),
    Reg("cv-qualifier", 3283,
        Diagram(<<Choice(0, <<T("const"), T("volatile")>>)>>)),
    Reg("ref-qualifier", 3287,
        Diagram(<<Choice(0, <<T("&"), T("&&")>>)>>)),
    Reg("declarator-id", 3291,
        Diagram(<<Optional(T("...")), NT("id-expression")>>)),
    Reg("type-id", 3295,
        Diagram(<<NT("type-specifier-seq"), Optional(NT("abstract-declarator"))>>)),
    Reg("defining-type-id", 3299,
        Diagram(<<NT("defining-type-specifier-seq"), Optional(NT("abstract-declarator"))>>)),
    Reg("abstract-declarator", 3303,
        Diagram(<<Choice(0, <<NT("ptr-abstract-declarator"), Sequence(<<Optional(NT("noptr-abstract-declarator")), NT("parameters-and-qualifiers"), NT("trailing-return-type")>>), NT("abstract-pack-declarator")>>)>>)),
    Reg("ptr-abstract-declarator", 3313,
        Diagram(<<ZeroOrMore(NT("ptr-operator")), Optional(NT("noptr-abstract-declarator"))>>)),
    Reg("noptr-abstract-declarator", 3320,
        Diagram(<<Optional(Sequence(<<T("("), NT("ptr-abstract-declarator"), T(")")>>)), ZeroOrMore(Choice(0, <<NT("parameters-and-qualifiers"), Sequence(<<T("["), Optional(NT("constant-expression")), T("]"), Optional(NT("attribute-specifier-seq"))>>)>>))>>)),
    Reg("abstract-pack-declarator", 3332,
        Diagram(<<ZeroOrMore(NT("ptr-operator")), NT("noptr-abstract-pack-declarator")>>)),
    Reg("noptr-abstract-pack-declarator", 3339,
        Diagram(<<T("..."), ZeroOrMore(Choice(0, <<NT("parameters-and-qualifiers"), Sequence(<<T("["), Optional(NT("constant-expression")), T("]"), Optional(NT("attribute-specifier-seq"))>>)>>))>>)),
    Reg("parameter-declaration-clause", 3351,
        Diagram(<<Choice(0, <<Sequence(<<Optional(NT("parameter-declaration-list")), Optional(T("..."))>>), Sequence(<<NT("parameter-declaration-list"), T(","), T("...")>>)>>)>>)),
    Reg("parameter-declaration-list", 3360,
        Diagram(<<NT("parameter-declaration"), ZeroOrMore(Sequence(<<T(","), NT("parameter-declaration")>>))>>)),
    Reg("parameter-declaration", 3367,
        Diagram(<<Optional(NT("attribute-specifier-seq")), Optional(T("this")), NT("decl-specifier-seq"), Choice(0, <<Sequence(<<NT("declarator"), Optional(Sequence(<<T("="), NT("initializer-clause")>>))>>), Sequence(<<Optional(NT("abstract-declarator")), Optional(Sequence(<<T("="), NT("initializer-clause")>>))>>)>>)>>)),
    Reg("initializer", 3379,
        Diagram(<<Choice(0, <<NT("brace-or-equal-initializer"), Sequence(<<T("("), NT("expression-list"), T(")")>>)>>)>>)),
    Reg("brace-or-equal-initializer", 3388,
        Diagram(<<Choice(0, <<Sequence(<<T("="), NT("initializer-clause")>>), NT("braced-init-list")>>)>>)),
    Reg("initializer-clause", 3397,
        Diagram(<<Choice(0, <<NT("assignment-expression"), NT("braced-init-list")>>)>>)),
    Reg("braced-init-list", 3406,
        Diagram(<<T("{"), Choice(0, <<Sequence(<<NT("initializer-list"), Optional(T(","))>>), Sequence(<<NT("designated-initializer-list"), Optional(T(","))>>), Comment("empty")>>), T("}")>>)),
    Reg("initializer-list", 3418,
        Diagram(<<NT("initializer-clause"), Optional(T("...")), ZeroOrMore(Sequence(<<T(","), NT("initializer-clause"), Optional(T("..."))>>))>>)),
    Reg("designated-initializer-list", 3426,
        Diagram(<<NT("designated-initializer-clause"), ZeroOrMore(Sequence(<<T(","), NT("designated-initializer-clause")>>))>>)),
    Reg("designated-initializer-clause", 3433,
        Diagram(<<NT("designator"), NT("brace-or-equal-initializer")>>)),
    Reg("designator", 3437,
        Diagram(<<T("."), NT("identifier")>>)),
    Reg("expr-or-braced-init-list", 3441,
        Diagram(<<Choice(0, <<NT("expression"), NT("braced-init-list")>>)>>)),
    Reg("function-definition", 3450,
        Diagram(<<Optional(NT("attribute-specifier-seq")), Optional(NT("decl-specifier-seq")), NT("declarator"), Choice(0, <<Sequence(<<Optional(NT("virt-specifier-seq")), NT("function-body")>>), Sequence(<<NT("requires-clause"), NT("function-body")>>)>>)>>)),
    Reg("function-body", 3462,
        Diagram(<<Choice(0, <<Sequence(<<Optional(NT("ctor-initializer")), NT("compound-statement")>>), NT("function-try-block"), Sequence(<<T("="), T("default"), T(";")>>), Sequence(<<T("="), T("delete"), T(";")>>)>>)>>)),
    Reg("enum-specifier", 3473,
        Diagram(<<NT("enum-head"), T("{"), Choice(0, <<Optional(NT("enumerator-list")), Sequence(<<NT("enumerator-list"), T(",")>>)>>), T("}")>>)),
    Reg("enum-head", 3485,
        Diagram(<<NT("enum-key"), Optional(NT("attribute-specifier-seq")), Optional(NT("enum-head-name")), Optional(NT("enum-base"))>>)),
    Reg("enum-head-name", 3494,
        Diagram(<<Optional(NT("nested-name-specifier")), NT("identifier")>>)),
    Reg("opaque-enum-declaration", 3498,
        Diagram(<<NT("enum-key"), Optional(NT("attribute-specifier-seq")), NT("enum-head-name"), Optional(NT("enum-base")), T(";")>>)),
    Reg("enum-key", 3508,
        Diagram(<<Choice(0, <<T("enum"), Sequence(<<T("enum"), T("class")>>), Sequence(<<T("enum"), T("struct")>>)>>)>>)),
    Reg("enum-base", 3518,
        Diagram(<<T(":"), NT("type-specifier-seq")>>)),
    Reg("enumerator-list", 3522,
        Diagram(<<NT("enumerator-definition"), ZeroOrMore(Sequence(<<T(","), NT("enumerator-definition")>>))>>)),
    Reg("enumerator-definition", 3529,
        Diagram(<<NT("enumerator"), Optional(Sequence(<<T("="), NT("constant-expression")>>))>>)),
    Reg("enumerator", 3536,
        Diagram(<<NT("identifier"), Optional(NT("attribute-specifier-seq"))>>)),
    Reg("using-enum-declaration", 3540,
        Diagram(<<T("using"), T("enum"), NT("using-enum-declarator"), T(";")>>)),
    Reg("using-enum-declarator", 3544,
        Diagram(<<Optional(NT("nested-name-specifier")), Choice(0, <<NT("identifier"), NT("simple-template-id")>>)>>)),
    Reg("namespace-definition", 3554,
        Diagram(<<Choice(0, <<NT("named-namespace-definition"), NT("unnamed-namespace-definition"), NT("nested-namespace-definition")>>)>>)),
    Reg("named-namespace-definition", 3564,
        Diagram(<<Optional(T("inline")), T("namespace"), Optional(NT("attribute-specifier-seq")), NT("identifier"), T("{"), NT("namespace-body"), T("}")>>)),
    Reg("unnamed-namespace-definition", 3576,
        Diagram(<<Optional(T("inline")), T("namespace"), Optional(NT("attribute-specifier-seq")), T("{"), NT("namespace-body"), T("}")>>)),
    Reg("nested-namespace-definition", 3587,
        Diagram(<<T("namespace"), NT("enclosing-namespace-specifier"), T("::"), Optional(T("inline")), NT("identifier"), T("{"), NT("namespace-body"), T("}")>>)),
    Reg("enclosing-namespace-specifier", 3600,
        Diagram(<<NT("identifier"), ZeroOrMore(Sequence(<<T("::"), Optional(T("inline")), NT("identifier")>>))>>)),
    Reg("namespace-body", 3607,
        Diagram(<<Optional(NT("declaration-seq"))>>)),
    Reg("namespace-alias-definition", 3611,
        Diagram(<<T("namespace"), NT("identifier"), T("="), NT("qualified-namespace-specifier"), T(";")>>)),
    Reg("qualified-namespace-specifier", 3621,
        Diagram(<<Optional(NT("nested-name-specifier")), NT("namespace-name")>>)),
    Reg("using-directive", 3625,
        Diagram(<<Optional(NT("attribute-specifier-seq")), T("using"), T("namespace"), Optional(NT("nested-name-specifier")), NT("namespace-name"), T(";")>>)),
    Reg("using-declaration", 3636,
        Diagram(<<T("using"), NT("using-declarator-list"), T(";")>>)),
    Reg("using-declarator-list", 3640,
        Diagram(<<NT("using-declarator"), Optional(T("...")), ZeroOrMore(Sequence(<<T(","), NT("using-declarator"), Optional(T("..."))>>))>>)),
    Reg("using-declarator", 3648,
        Diagram(<<Optional(T("typename")), NT("nested-name-specifier"), NT("unqualified-id")>>)),
    Reg("asm-declaration", 3656,
        Diagram(<<Optional(NT("attribute-specifier-seq")), T("asm"), T("("), NT("string-literal"), T(")"), T(";")>>)),
    Reg("linkage-specification", 3667,
        Diagram(<<T("extern"), NT("string-literal"), Choice(0, <<Sequence(<<T("{"), Optional(NT("declaration-seq")), T("}")>>), NT("name-declaration")>>)>>)),
    Reg("attribute-specifier-seq", 3678,
        Diagram(<<OneOrMore(NT("attribute-specifier"))>>)),
    Reg("attribute-specifier", 3682,
        Diagram(<<Choice(0, <<Sequence(<<T("["), T("["), Optional(NT("attribute-using-prefix")), NT("attribute-list"), T("]"), T("]")>>), NT("alignment-specifier")>>)>>)),
    Reg("alignment-specifier", 3698,
        Diagram(<<T("alignas"), T("("), Choice(0, <<NT("type-id"), NT("constant-expression")>>), Optional(T("...")), T(")")>>)),
    Reg("attribute-using-prefix", 3708,
        Diagram(<<T("using"), NT("attribute-namespace"), T(":")>>)),
    Reg("attribute-list", 3712,
        Diagram(<<Optional(NT("attribute")), ZeroOrMore(Sequence(<<T(","), Choice(0, <<Optional(NT("attribute")), Sequence(<<NT("attribute"), T("...")>>)>>)>>))>>)),
    Reg("attribute", 3727,
        Diagram(<<NT("attribute-token"), Optional(NT("attribute-argument-clause"))>>)),
    Reg("attribute-token", 3731,
        Diagram(<<Choice(0, <<NT("identifier"), NT("attribute-scoped-token")>>)>>)),
    Reg("attribute-scoped-token", 3740,
        Diagram(<<NT("attribute-namespace"), T("::"), NT("identifier")>>)),
    Reg("attribute-namespace", 3744,
        Diagram(<<NT("identifier")>>)),
    Reg("attribute-argument-clause", 3748,
        Diagram(<<T("("), Optional(NT("balanced-token-seq")), T(")")>>)),
    Reg("balanced-token-seq", 3752,
        Diagram(<<OneOrMore(NT("balanced-token"))>>)),
    Reg("balanced-token", 3756,
        Diagram(<<Choice(0, <<Sequence(<<T("("), Optional(NT("balanced-token-seq")), T(")")>>), Sequence(<<T("["), Optional(NT("balanced-token-seq")), T("]")>>), Sequence(<<T("{"), Optional(NT("balanced-token-seq")), T("}")>>), Comment("any token except ( ) [ ] { }")>>)>>)),
    Reg("module-declaration", 3769,
        Diagram(<<Optional(T("export")), T("module"), NT("module-name"), Optional(NT("module-partition")), Optional(NT("attribute-specifier-seq")), T(";")>>)),
    Reg("module-name", 3780,
        Diagram(<<Optional(NT("module-name-qualifier")), NT("identifier")>>)),
    Reg("module-partition", 3784,
        Diagram(<<T(":"), Optional(NT("module-name-qualifier")), NT("identifier")>>)),
    Reg("module-name-qualifier", 3788,
        Diagram(<<NT("identifier"), T("."), ZeroOrMore(Sequence(<<NT("identifier"), T(".")>>))>>)),
    Reg("export-declaration", 3796,
        Diagram(<<Choice(0, <<Sequence(<<T("export"), NT("name-declaration")>>), Sequence(<<T("export"), T("{"), Optional(NT("declaration-seq")), T("}")>>), Sequence(<<T("export"), NT("module-import-declaration")>>)>>)>>)),
    Reg("module-import-declaration", 3806,
        Diagram(<<T("import"), Choice(0, <<NT("module-name"), NT("module-partition"), NT("header-name")>>), Optional(NT("attribute-specifier-seq")), T(";")>>)),
    Reg("global-module-fragment", 3819,
        Diagram(<<T("module"), T(";"), Optional(NT("declaration-seq"))>>)),
    Reg("private-module-fragment", 3823,
        Diagram(<<T("module"), T(":"), T("private"), T(";"), Optional(NT("declaration-seq"))>>)),
    Reg("class-specifier", 3829,
        Diagram(<<NT("class-head"), T("{"), Optional(NT("member-specification")), T("}")>>)),
    Reg("class-head", 3838,
        Diagram(<<NT("class-key"), Optional(NT("attribute-specifier-seq")), Optional(Sequence(<<NT("class-head-name"), Optional(NT("class-virt-specifier"))>>)), Optional(NT("base-clause"))>>)),
    Reg("class-head-name", 3852,
        Diagram(<<Optional(NT("nested-name-specifier")), NT("class-name")>>)),
    Reg("class-virt-specifier", 3856,
        Diagram(<<T("final")>>)),
    Reg("class-key", 3860,
        Diagram(<<Choice(0, <<T("class"), T("struct"), T("union")>>)>>)),
    Reg("member-specification", 3864,
        Diagram(<<OneOrMore(Choice(0, <<NT("member-declaration"), Sequence(<<NT("access-specifier"), T(":")>>)>>))>>)),
    Reg("member-declaration", 3875,
        Diagram(<<Choice(0, <<Sequence(<<Optional(NT("attribute-specifier-seq")), Optional(NT("decl-specifier-seq")), Optional(NT("member-declarator-list")), T(";")>>), NT("function-definition"), NT("using-declaration"), NT("using-enum-declaration"), NT("static_assert-declaration"), NT("template-declaration"), NT("explicit-specialization"), NT("deduction-guide"), NT("alias-declaration"), NT("opaque-enum-declaration"), NT("empty-declaration")>>)>>)),
    Reg("member-declarator-list", 3898,
        Diagram(<<NT("member-declarator"), ZeroOrMore(Sequence(<<T(","), NT("member-declarator")>>))>>)),
    Reg("member-declarator", 3905,
        Diagram(<<Choice(0, <<Sequence(<<NT("declarator"), Choice(0, <<Sequence(<<Optional(NT("virt-specifier-seq")), Optional(NT("pure-specifier"))>>), NT("requires-clause"), Optional(NT("brace-or-equal-initializer"))>>)>>), Sequence(<<Optional(NT("identifier")), Optional(NT("attribute-specifier-seq")), T(":"), NT("constant-expression"), Optional(NT("brace-or-equal-initializer"))>>)>>)>>)),
    Reg("virt-specifier-seq", 3927,
        Diagram(<<OneOrMore(NT("virt-specifier"))>>)),
    Reg("virt-specifier", 3931,
        Diagram(<<Choice(0, <<T("override"), T("final")>>)>>)),
    Reg("pure-specifier", 3935,
        Diagram(<<T("="), T("0")>>)),
    Reg("conversion-function-id", 3939,
        Diagram(<<T("operator"), NT("conversion-type-id")>>)),
    Reg("conversion-type-id", 3943,
        Diagram(<<NT("type-specifier-seq"), Optional(NT("conversion-declarator"))>>)),
    Reg("conversion-declarator", 3947,
        Diagram(<<NT("ptr-operator"), Optional(NT("conversion-declarator"))>>)),
    Reg("base-clause", 3951,
        Diagram(<<T(":"), NT("base-specifier-list")>>)),
    Reg("base-specifier-list", 3955,
        Diagram(<<NT("base-specifier"), Optional(T("...")), ZeroOrMore(Sequence(<<T(","), NT("base-specifier"), Optional(T("..."))>>))>>)),
    Reg("base-specifier", 3963,
        Diagram(<<Optional(NT("attribute-specifier-seq")), Choice(0, <<NT("class-or-decltype"), Sequence(<<T("virtual"), Optional(NT("access-specifier")), NT("class-or-decltype")>>), Sequence(<<NT("access-specifier"), Optional(T("virtual")), NT("class-or-decltype")>>)>>)>>)),
    Reg("class-or-decltype", 3974,
        Diagram(<<Choice(0, <<Sequence(<<Optional(NT("nested-name-specifier")), NT("type-name")>>), Sequence(<<NT("nested-name-specifier"), T("template"), NT("simple-template-id")>>), NT("decltype-specifier")>>)>>)),
    Reg("access-specifier", 3984,
        Diagram(<<Choice(0, <<T("private"), T("protected"), T("public")>>)>>)),
    Reg("ctor-initializer", 3988,
        Diagram(<<T(":"), NT("mem-initializer-list")>>)),
    Reg("mem-initializer-list", 3992,
        Diagram(<<NT("mem-initializer"), Optional(T("...")), ZeroOrMore(Sequence(<<T(","), NT("mem-initializer"), Optional(T("..."))>>))>>)),
    Reg("mem-initializer", 4000,
        Diagram(<<NT("mem-initializer-id"), Choice(0, <<Sequence(<<T("("), Optional(NT("expression-list")), T(")")>>), NT("braced-init-list")>>)>>)),
    Reg("mem-initializer-id", 4010,
        Diagram(<<Choice(0, <<NT("class-or-decltype"), NT("identifier")>>)>>)),
    Reg("operator-function-id", 4021,
        Diagram(<<T("operator"), NT("operator")>>)),
    Reg("operator", 4025,
        Diagram(<<Choice(0, <<T("new"), T("delete"), T("new[]"), T("delete[]"), T("co_await"), T("()"), T("[]"), T("->"), T("->*"), T("~"), T("!"), T("+"), T("-"), T("*"), T("/"), T("%"), T("^"), T("&"), T("|"), T("="), T("+="), T("-="), T("*="), T("/="), T("%="), T("^="), T("&="), T("|="), T("=="), T("!="), T("<"), T(">"), T("<="), T(">="), T("<=>"), T("&&"), T("||"), T("<<"), T(">>"), T("<<="), T(">>="), T("++"), T("--"), T(",")>>)>>)),
    Reg("literal-operator-id", 4038,
        Diagram(<<T("operator"), Choice(0, <<Sequence(<<NT("string-literal"), NT("identifier")>>), NT("user-defined-string-literal")>>)>>)),
    Reg("template-declaration", 4050,
        Diagram(<<NT("template-head"), Choice(0, <<NT("declaration"), NT("concept-definition")>>)>>)),
    Reg("template-head", 4060,
        Diagram(<<T("template"), T("<"), NT("template-parameter-list"), T(">"), Optional(NT("requires-clause"))>>)),
    Reg("template-parameter-list", 4070,
        Diagram(<<NT("template-parameter"), ZeroOrMore(Sequence(<<T(","), NT("template-parameter")>>))>>)),
    Reg("requires-clause", 4077,
        Diagram(<<T("requires"), NT("constraint-logical-or-expression")>>)),
    Reg("constraint-logical-or-expression", 4081,
        Diagram(<<NT("constraint-logical-and-expression"), ZeroOrMore(Sequence(<<T("||"), NT("constraint-logical-and-expression")>>))>>)),
    Reg("constraint-logical-and-expression", 4088,
        Diagram(<<NT("primary-expression"), ZeroOrMore(Sequence(<<T("&&"), NT("primary-expression")>>))>>)),
    Reg("template-parameter", 4095,
        Diagram(<<Choice(0, <<NT("type-parameter"), NT("parameter-declaration")>>)>>)),
    Reg("type-parameter", 4104,
        Diagram(<<Choice(0, <<Sequence(<<NT("type-parameter-key"), Optional(T("...")), Optional(NT("identifier"))>>), Sequence(<<NT("type-parameter-key"), Optional(NT("identifier")), T("="), NT("type-id")>>), Sequence(<<NT("type-constraint"), Optional(T("...")), Optional(NT("identifier"))>>), Sequence(<<NT("type-constraint"), Optional(NT("identifier")), T("="), NT("type-id")>>), Sequence(<<NT("template-head"), NT("type-parameter-key"), Optional(T("...")), Optional(NT("identifier"))>>), Sequence(<<NT("template-head"), NT("type-parameter-key"), Optional(NT("identifier")), T("="), NT("id-expression")>>)>>)>>)),
    Reg("type-parameter-key", 4117,
        Diagram(<<Choice(0, <<T("class"), T("typename")>>)>>)),
    Reg("type-constraint", 4121,
        Diagram(<<Optional(NT("nested-name-specifier")), NT("concept-name"), Optional(Sequence(<<T("<"), Optional(NT("template-argument-list")), T(">")>>))>>)),
    Reg("simple-template-id", 4129,
        Diagram(<<NT("template-name"), T("<"), Optional(NT("template-argument-list")), T(">")>>)),
    Reg("template-id", 4138,
        Diagram(<<Choice(0, <<NT("simple-template-id"), Sequence(<<NT("operator-function-id"), T("<"), Optional(NT("template-argument-list")), T(">")>>), Sequence(<<NT("literal-operator-id"), T("<"), Optional(NT("template-argument-list")), T(">")>>)>>)>>)),
    Reg("template-argument-list", 4148,
        Diagram(<<NT("template-argument"), Optional(T("...")), ZeroOrMore(Sequence(<<T(","), NT("template-argument"), Optional(T("..."))>>))>>)),
    Reg("template-argument", 4156,
        Diagram(<<Choice(0, <<NT("constant-expression"), NT("type-id"), NT("id-expression")>>)>>)),
    Reg("constraint-expression", 4166,
        Diagram(<<NT("logical-or-expression")>>)),
    Reg("deduction-guide", 4170,
        Diagram(<<Optional(NT("explicit-specifier")), NT("template-name"), T("("), NT("parameter-declaration-clause"), T(")"), T("->"), NT("simple-template-id"), T(";")>>)),
    Reg("concept-definition", 4183,
        Diagram(<<T("concept"), NT("concept-name"), Optional(NT("attribute-specifier-seq")), T("="), NT("constraint-expression"), T(";")>>)),
    Reg("concept-name", 4194,
        Diagram(<<NT("identifier")>>)),
    Reg("typename-specifier", 4198,
        Diagram(<<T("typename"), NT("nested-name-specifier"), Choice(0, <<NT("identifier"), Sequence(<<Optional(T("template")), NT("simple-template-id")>>)>>)>>)),
    Reg("explicit-instantiation", 4209,
        Diagram(<<Optional(T("extern")), T("template"), NT("declaration")>>)),
    Reg("explicit-specialization", 4213,
        Diagram(<<T("template"), T("<"), T(">"), NT("declaration")>>)),
    Reg("try-block", 4219,
        Diagram(<<T("try"), NT("compound-statement"), NT("handler-seq")>>)),
    Reg("function-try-block", 4223,
        Diagram(<<T("try"), Optional(NT("ctor-initializer")), NT("compound-statement"), NT("handler-seq")>>)),
    Reg("handler-seq", 4232,
        Diagram(<<OneOrMore(NT("handler"))>>)),
    Reg("handler", 4236,
        Diagram(<<T("catch"), T("("), NT("exception-declaration"), T(")"), NT("compound-statement")>>)),
    Reg("exception-declaration", 4246,
        Diagram(<<Choice(0, <<Sequence(<<Optional(NT("attribute-specifier-seq")), NT("type-specifier-seq"), Choice(0, <<NT("declarator"), Optional(NT("abstract-declarator"))>>)>>), T("...")>>)>>)),
    Reg("noexcept-specifier", 4259,
        Diagram(<<T("noexcept"), Optional(Sequence(<<T("("), NT("constant-expression"), T(")")>>))>>)),
    Reg("preprocessing-file", 4268,
        Diagram(<<Choice(0, <<Optional(NT("group")), NT("module-file")>>)>>)),
    Reg("module-file", 4277,
        Diagram(<<Optional(NT("pp-global-module-fragment")), NT("pp-module"), Optional(NT("group")), Optional(NT("pp-private-module-fragment"))>>)),
    Reg("pp-global-module-fragment", 4286,
        Diagram(<<T("module"), T(";"), NT("new-line"), Optional(NT("group"))>>)),
    Reg("pp-private-module-fragment", 4290,
        Diagram(<<T("module"), T(":"), T("private"), T(";"), NT("new-line"), Optional(NT("group"))>>)),
    Reg("group", 4294,
        Diagram(<<OneOrMore(NT("group-part"))>>)),
    Reg("group-part", 4298,
        Diagram(<<Choice(0, <<NT("control-line"), NT("if-section"), NT("text-line"), Sequence(<<T("#"), NT("conditionally-supported-directive")>>)>>)>>)),
    Reg("control-line", 4309,
        Diagram(<<Choice(0, <<Sequence(<<T("#"), T("include"), NT("pp-tokens"), NT("new-line")>>), NT("pp-import"), Sequence(<<T("#"), T("define"), NT("identifier"), NT("replacement-list"), NT("new-line")>>), Sequence(<<T("#"), T("define"), NT("identifier"), NT("lparen"), Optional(NT("identifier-list")), T(")"), NT("replacement-list"), NT("new-line")>>), Sequence(<<T("#"), T("define"), NT("identifier"), NT("lparen"), T("..."), T(")"), NT("replacement-list"), NT("new-line")>>), Sequence(<<T("#"), T("define"), NT("identifier"), NT("lparen"), NT("identifier-list"), T(","), T("..."), T(")"), NT("replacement-list"), NT("new-line")>>), Sequence(<<T("#"), T("undef"), NT("identifier"), NT("new-line")>>), Sequence(<<T("#"), T("line"), NT("pp-tokens"), NT("new-line")>>), Sequence(<<T("#"), T("error"), Optional(NT("pp-tokens")), NT("new-line")>>), Sequence(<<T("#"), T("warning"), Optional(NT("pp-tokens")), NT("new-line")>>), Sequence(<<T("#"), T("pragma"), Optional(NT("pp-tokens")), NT("new-line")>>), Sequence(<<T("#"), NT("new-line")>>)>>)>>)),
    Reg("if-section", 4328,
        Diagram(<<NT("if-group"), Optional(NT("elif-groups")), Optional(NT("else-group")), NT("endif-line")>>)),
    Reg("if-group", 4337,
        Diagram(<<T("#"), Choice(0, <<Sequence(<<T("if"), NT("constant-expression")>>), Sequence(<<T("ifdef"), NT("identifier")>>), Sequence(<<T("ifndef"), NT("identifier")>>)>>), NT("new-line"), Optional(NT("group"))>>)),
    Reg("elif-groups", 4350,
        Diagram(<<OneOrMore(NT("elif-group"))>>)),
    Reg("elif-group", 4354,
        Diagram(<<T("#"), Choice(0, <<Sequence(<<T("elif"), NT("constant-expression")>>), Sequence(<<T("elifdef"), NT("identifier")>>), Sequence(<<T("elifndef"), NT("identifier")>>)>>), NT("new-line"), Optional(NT("group"))>>)),
    Reg("else-group", 4367,
        Diagram(<<T("#"), T("else"), NT("new-line"), Optional(NT("group"))>>)),
    Reg("endif-line", 4371,
        Diagram(<<T("#"), T("endif"), NT("new-line")>>)),
    Reg("text-line", 4375,
        Diagram(<<Optional(NT("pp-tokens")), NT("new-line")>>)),
    Reg("conditionally-supported-directive", 4379,
        Diagram(<<NT("pp-tokens"), NT("new-line")>>)),
    Reg("lparen", 4383,
        Diagram(<<Comment("( not preceded by whitespace")>>)),
    Reg("identifier-list", 4387,
        Diagram(<<NT("identifier"), ZeroOrMore(Sequence(<<T(","), NT("identifier")>>))>>)),
    Reg("replacement-list", 4394,
        Diagram(<<Optional(NT("pp-tokens"))>>)),
    Reg("pp-tokens", 4398,
        Diagram(<<OneOrMore(NT("preprocessing-token"))>>)),
    Reg("new-line", 4402,
        Diagram(<<Comment("the new-line character")>>)),
    Reg("defined-macro-expression", 4406,
        Diagram(<<T("defined"), Choice(0, <<NT("identifier"), Sequence(<<T("("), NT("identifier"), T(")")>>)>>)>>)),
    Reg("h-preprocessing-token", 4416,
        Diagram(<<Comment("any preprocessing-token other than >")>>)),
    Reg("h-pp-tokens", 4420,
        Diagram(<<OneOrMore(NT("h-preprocessing-token"))>>)),
    Reg("header-name-tokens", 4424,
        Diagram(<<Choice(0, <<NT("string-literal"), Sequence(<<T("<"), NT("h-pp-tokens"), T(">")>>)>>)>>)),
    Reg("has-include-expression", 4433,
        Diagram(<<T("__has_include"), T("("), Choice(0, <<NT("header-name"), NT("header-name-tokens")>>), T(")")>>)),
    Reg("has-attribute-expression", 4445,
        Diagram(<<T("__has_cpp_attribute"), T("("), NT("pp-tokens"), T(")")>>)),
    Reg("pp-module", 4449,
        Diagram(<<Optional(T("export")), T("module"), Optional(NT("pp-tokens")), T(";"), NT("new-line")>>)),
    Reg("pp-import", 4459,
        Diagram(<<Optional(T("export")), T("import"), Choice(0, <<NT("header-name"), NT("header-name-tokens"), NT("pp-tokens")>>), Optional(NT("pp-tokens")), T(";"), NT("new-line")>>)),
    Reg("va-opt-replacement", 4474,
        Diagram(<<T("__VA_OPT__"), T("("), Optional(NT("pp-tokens")), T(")")>>))
    >>

SECTION_ORDER_revised ==
    <<
        "keywords", "lexical", "literals", "basics", "expressions", "statements",
        "declarations", "modules", "classes", "overloading", "templates", "exceptions",
        "preprocessing"
    >>

SECTION_TITLES_revised ==
    [
      keywords |-> "A.2 Keywords",
      lexical |-> "A.3 Lexical Conventions",
      literals |-> "A.3 Literals",
      basics |-> "A.4 Basics",
      expressions |-> "A.5 Expressions",
      statements |-> "A.6 Statements",
      declarations |-> "A.7 Declarations",
      modules |-> "A.8 Modules",
      classes |-> "A.9 Classes",
      overloading |-> "A.10 Overloading",
      templates |-> "A.11 Templates",
      exceptions |-> "A.12 Exception Handling",
      preprocessing |-> "A.13 Preprocessing Directives"
    ]

SECTION_RULES_revised ==
    [
      keywords |-> <<
        "typedef-name", "namespace-name", "namespace-alias", "class-name", "enum-name",
        "template-name"
      >>,
      lexical |-> <<
        "n-char", "n-char-sequence", "named-universal-character", "hex-quad",
        "simple-hexadecimal-digit-sequence", "universal-character-name", "preprocessing-token",
        "token", "header-name", "h-char-sequence", "h-char", "q-char-sequence", "q-char",
        "pp-number", "identifier", "identifier-start", "identifier-continue", "nondigit",
        "digit", "keyword", "preprocessing-op-or-punc", "preprocessing-operator",
        "operator-or-punctuator"
      >>,
      literals |-> <<
        "literal", "integer-literal", "binary-literal", "octal-literal", "decimal-literal",
        "hexadecimal-literal", "binary-digit", "octal-digit", "nonzero-digit",
        "hexadecimal-prefix", "hexadecimal-digit-sequence", "hexadecimal-digit",
        "integer-suffix", "unsigned-suffix", "long-suffix", "long-long-suffix", "size-suffix",
        "character-literal", "encoding-prefix", "c-char-sequence", "c-char", "basic-c-char",
        "escape-sequence", "simple-escape-sequence", "simple-escape-sequence-char",
        "numeric-escape-sequence", "simple-octal-digit-sequence", "octal-escape-sequence",
        "hexadecimal-escape-sequence", "conditional-escape-sequence",
        "conditional-escape-sequence-char", "floating-point-literal",
        "decimal-floating-point-literal", "hexadecimal-floating-point-literal",
        "fractional-constant", "hexadecimal-fractional-constant", "exponent-part",
        "binary-exponent-part", "sign", "digit-sequence", "floating-point-suffix",
        "string-literal", "s-char-sequence", "s-char", "basic-s-char", "raw-string",
        "r-char-sequence", "r-char", "d-char-sequence", "d-char", "boolean-literal",
        "pointer-literal", "user-defined-literal", "user-defined-integer-literal",
        "user-defined-floating-point-literal", "user-defined-string-literal",
        "user-defined-character-literal", "ud-suffix"
      >>,
      basics |-> <<
        "translation-unit"
      >>,
      expressions |-> <<
        "primary-expression", "id-expression", "unqualified-id", "qualified-id",
        "nested-name-specifier", "lambda-expression", "lambda-introducer", "lambda-declarator",
        "lambda-specifier", "lambda-specifier-seq", "lambda-capture", "capture-default",
        "capture-list", "capture", "simple-capture", "init-capture", "fold-expression",
        "fold-operator", "requires-expression", "requirement-parameter-list",
        "requirement-body", "requirement-seq", "requirement", "simple-requirement",
        "type-requirement", "compound-requirement", "return-type-requirement",
        "nested-requirement", "postfix-expression", "expression-list", "unary-expression",
        "unary-operator", "await-expression", "noexcept-expression", "new-expression",
        "new-placement", "new-type-id", "new-declarator", "noptr-new-declarator",
        "new-initializer", "delete-expression", "cast-expression", "pm-expression",
        "multiplicative-expression", "additive-expression", "shift-expression",
        "compare-expression", "relational-expression", "equality-expression", "and-expression",
        "exclusive-or-expression", "inclusive-or-expression", "logical-and-expression",
        "logical-or-expression", "conditional-expression", "yield-expression",
        "throw-expression", "assignment-expression", "assignment-operator", "expression",
        "constant-expression"
      >>,
      statements |-> <<
        "statement", "init-statement", "condition", "label", "labeled-statement",
        "expression-statement", "compound-statement", "statement-seq", "label-seq",
        "selection-statement", "iteration-statement", "for-range-declaration",
        "for-range-initializer", "jump-statement", "coroutine-return-statement",
        "declaration-statement"
      >>,
      declarations |-> <<
        "declaration-seq", "declaration", "name-declaration", "special-declaration",
        "block-declaration", "nodeclspec-function-declaration", "alias-declaration",
        "simple-declaration", "static_assert-declaration", "empty-declaration",
        "attribute-declaration", "decl-specifier", "decl-specifier-seq",
        "storage-class-specifier", "function-specifier", "explicit-specifier", "type-specifier",
        "type-specifier-seq", "defining-type-specifier", "defining-type-specifier-seq",
        "simple-type-specifier", "type-name", "elaborated-type-specifier", "decltype-specifier",
        "placeholder-type-specifier", "init-declarator-list", "init-declarator", "declarator",
        "ptr-declarator", "noptr-declarator", "parameters-and-qualifiers",
        "trailing-return-type", "ptr-operator", "cv-qualifier-seq", "cv-qualifier",
        "ref-qualifier", "declarator-id", "type-id", "defining-type-id", "abstract-declarator",
        "ptr-abstract-declarator", "noptr-abstract-declarator", "abstract-pack-declarator",
        "noptr-abstract-pack-declarator", "parameter-declaration-clause",
        "parameter-declaration-list", "parameter-declaration", "initializer",
        "brace-or-equal-initializer", "initializer-clause", "braced-init-list",
        "initializer-list", "designated-initializer-list", "designated-initializer-clause",
        "designator", "expr-or-braced-init-list", "function-definition", "function-body",
        "enum-specifier", "enum-head", "enum-head-name", "opaque-enum-declaration", "enum-key",
        "enum-base", "enumerator-list", "enumerator-definition", "enumerator",
        "using-enum-declaration", "using-enum-declarator", "namespace-definition",
        "named-namespace-definition", "unnamed-namespace-definition",
        "nested-namespace-definition", "enclosing-namespace-specifier", "namespace-body",
        "namespace-alias-definition", "qualified-namespace-specifier", "using-directive",
        "using-declaration", "using-declarator-list", "using-declarator", "asm-declaration",
        "linkage-specification", "attribute-specifier-seq", "attribute-specifier",
        "alignment-specifier", "attribute-using-prefix", "attribute-list", "attribute",
        "attribute-token", "attribute-scoped-token", "attribute-namespace",
        "attribute-argument-clause", "balanced-token-seq", "balanced-token"
      >>,
      modules |-> <<
        "module-declaration", "module-name", "module-partition", "module-name-qualifier",
        "export-declaration", "module-import-declaration", "global-module-fragment",
        "private-module-fragment"
      >>,
      classes |-> <<
        "class-specifier", "class-head", "class-head-name", "class-virt-specifier", "class-key",
        "member-specification", "member-declaration", "member-declarator-list",
        "member-declarator", "virt-specifier-seq", "virt-specifier", "pure-specifier",
        "conversion-function-id", "conversion-type-id", "conversion-declarator", "base-clause",
        "base-specifier-list", "base-specifier", "class-or-decltype", "access-specifier",
        "ctor-initializer", "mem-initializer-list", "mem-initializer", "mem-initializer-id"
      >>,
      overloading |-> <<
        "operator-function-id", "operator", "literal-operator-id"
      >>,
      templates |-> <<
        "template-declaration", "template-head", "template-parameter-list", "requires-clause",
        "constraint-logical-or-expression", "constraint-logical-and-expression",
        "template-parameter", "type-parameter", "type-parameter-key", "type-constraint",
        "simple-template-id", "template-id", "template-argument-list", "template-argument",
        "constraint-expression", "deduction-guide", "concept-definition", "concept-name",
        "typename-specifier", "explicit-instantiation", "explicit-specialization"
      >>,
      exceptions |-> <<
        "try-block", "function-try-block", "handler-seq", "handler", "exception-declaration",
        "noexcept-specifier"
      >>,
      preprocessing |-> <<
        "preprocessing-file", "module-file", "pp-global-module-fragment",
        "pp-private-module-fragment", "group", "group-part", "control-line", "if-section",
        "if-group", "elif-groups", "elif-group", "else-group", "endif-line", "text-line",
        "conditionally-supported-directive", "lparen", "identifier-list", "replacement-list",
        "pp-tokens", "new-line", "defined-macro-expression", "h-preprocessing-token",
        "h-pp-tokens", "header-name-tokens", "has-include-expression",
        "has-attribute-expression", "pp-module", "pp-import", "va-opt-replacement"
      >>
    ]

----------------------------------------------------------------------------
(* callOrNew and the wrapped primitives *)

\* The railroad-diagrams package ships in builds whose primitives are factory
\* functions and in builds whose primitives are class constructors.
RRBuilds == {"functions", "classes"}

\* What can go wrong inside a primitive: nothing, or the primitive of one
\* kind throws an error of its own while it constructs its node.
Faults == {"none"} \cup Kinds

MissingNew(kind) ==
    ErrorValue("TypeError",
               "Class constructor " \o kind \o " cannot be invoked without 'new'")
PrimitiveFailure(kind) ==
    ErrorValue("Error", kind \o " could not be constructed")

\* A function, described by what a plain call of it and what a construction
\* with `new` complete with.
Callable(onCall, onNew) == [t |-> "function", onCall |-> onCall, onNew |-> onNew]

\* RR.<kind>(...args), called as a plain function.
PlainCall(build, fault, node) ==
    IF build = "classes" THEN Throw(MissingNew(node.kind))
    ELSE IF fault = node.kind THEN Throw(PrimitiveFailure(node.kind))
    ELSE Return(RRObject(node))

\* new RR.<kind>(...args)
NewCall(build, fault, node) ==
    IF fault = node.kind THEN Throw(PrimitiveFailure(node.kind))
    ELSE Return(RRObject(node))

\* The retry is made for every TypeError, whatever its message.
callOrNew_anyTypeError(Ctor) ==
    LET plain == Ctor.onCall
    IN  IF ~plain.threw
        THEN [threw |-> FALSE, value |-> plain.value, invoked |-> <<"call">>]
        ELSE IF plain.value.t = "error" /\ plain.value.ctor = "TypeError"
             THEN [threw |-> Ctor.onNew.threw, value |-> Ctor.onNew.value,
                   invoked |-> <<"call", "new">>]
             ELSE [threw |-> TRUE, value |-> plain.value, invoked |-> <<"call">>]

\* try { return Ctor(...args); }
\* catch (e) { if (e instanceof TypeError && /without 'new'/.test(e.message))
\*               return new Ctor(...args);
\*             throw e; }
\* Returns the completion together with the invocations of Ctor it made.
\* The messages of the errors the engine and the library throw are strings.
callOrNew(Ctor) ==
    LET plain == Ctor.onCall
    IN  IF ~plain.threw
        THEN [threw |-> FALSE, value |-> plain.value, invoked |-> <<"call">>]
        ELSE IF /\ plain.value.t = "error"
                /\ plain.value.ctor = "TypeError"
                /\ plain.value.message.t = "string"
                /\ includes(plain.value.message.s, "without 'new'")
             THEN [threw |-> Ctor.onNew.threw, value |-> Ctor.onNew.value,
                   invoked |-> <<"call", "new">>]
             ELSE [threw |-> TRUE, value |-> plain.value, invoked |-> <<"call">>]

\* RR.<kind> with the arguments of one call bound.
RRPrimitive(build, fault, node) ==
    Callable(PlainCall(build, fault, node), NewCall(build, fault, node))

\* const <Kind> = (...a) => callOrNew(RR.<Kind>, ...a);
Wrapped(build, fault, node) ==
    LET made == callOrNew(RRPrimitive(build, fault, node))
    IN  [threw |-> made.threw, value |-> made.value]

\* The object a primitive builds: the node with the address it is allocated
\* at.  Two positions hold the same object exactly when they hold the same
\* address.
Allocated(node, id) ==
    [kind |-> node.kind, text |-> node.text, index |-> node.index,
     items |-> node.items, id |-> id]

\* A node without the addresses: kinds, texts, indexes and children only.
RECURSIVE Shape(_)
Shape(node) ==
    Node(node.kind, node.text, node.index,
         [i \in 1..Len(node.items) |-> Shape(node.items[i])])

\* The nodes of a tree, the root included.
RECURSIVE Nodes(_)
Nodes(node) ==
    {node} \cup UNION {Nodes(node.items[i]) : i \in 1..Len(node.items)}

\* The number of positions of a tree.
RECURSIVE Size(_)
Size(node) ==
    IF Len(node.items) = 0 THEN 1
    ELSE 1 + Size(node.items[1])
           + Size([node EXCEPT !.items = Tail(node.items)]) - 1

\* The rule names a tree refers to through NonTerminal nodes.
ReferencedNames(node) == {n.text : n \in {x \in Nodes(node) : x.kind = "NonTerminal"}}

\* The locals in scope: <<name, object>> pairs, innermost last.
Bind(env, name, node) == Append(env, <<name, node>>)
Lookup(env, name) ==
    env[CHOOSE i \in 1..Len(env) :
            /\ env[i][1] = name
            /\ \A j \in (i + 1)..Len(env) : env[j][1] # name][2]

\* Evaluation of a factory body: the arguments of a primitive are evaluated
\* left to right before the primitive itself, and the first exception ends
\* the evaluation.  `free` is the first address no live object occupies;
\* every primitive call that returns takes the next one.
RECURSIVE Evaluate(_, _, _, _, _), EvaluateArgs(_, _, _, _, _, _)
Evaluate(build, fault, e, free, env) ==
    CASE e.kind = "const" ->
            LET def == Evaluate(build, fault, e.items[1], free, env)
            IN  IF def.threw THEN def
                ELSE Evaluate(build, fault, e.items[2], def.free,
                              Bind(env, e.text, def.value.node))
      [] e.kind = "ref" ->
            [threw |-> FALSE, value |-> RRObject(Lookup(env, e.text)), free |-> free]
      [] OTHER ->
            LET args == EvaluateArgs(build, fault, e.items, <<>>, free, env)
            IN  IF args.threw THEN args
                ELSE LET made == Wrapped(build, fault,
                                     Allocated(Node(e.kind, e.text, e.index, args.value),
                                               args.free))
                     IN  [threw |-> made.threw, value |-> made.value,
                          free |-> args.free + 1]

\* The arguments after the first Len(done) ones, whose objects are in `done`.
EvaluateArgs(build, fault, items, done, free, env) ==
    IF Len(done) = Len(items)
    THEN [threw |-> FALSE, value |-> done, free |-> free]
    ELSE LET arg == Evaluate(build, fault, items[Len(done) + 1], free, env)
         IN  IF arg.threw THEN arg
             ELSE EvaluateArgs(build, fault, items, Append(done, arg.value.node),
                               arg.free, env)

----------------------------------------------------------------------------
(* The two catalog copies *)

Copies == {"initial", "revised"}

rulesSetCalls(c) ==
    IF c = "initial" THEN rulesSetCalls_initial ELSE rulesSetCalls_revised
\* The first section is listed a second time at the end.
SECTION_ORDER_repeated(c) ==
    Append(IF c = "initial" THEN SECTION_ORDER_initial ELSE SECTION_ORDER_revised,
           "keywords")

SECTION_ORDER(c) ==
    IF c = "initial" THEN SECTION_ORDER_initial ELSE SECTION_ORDER_revised
SECTION_TITLES(c) ==
    IF c = "initial" THEN SECTION_TITLES_initial ELSE SECTION_TITLES_revised
\* Each copy paired with the section lists of the other one.
SECTION_RULES_crossed(c) ==
    IF c = "initial" THEN SECTION_RULES_revised ELSE SECTION_RULES_initial

SECTION_RULES(c) ==
    IF c = "initial" THEN SECTION_RULES_initial ELSE SECTION_RULES_revised

\* The body of the factory written at `line` of copy c.
BodyAt(calls, line) == calls[CHOOSE i \in 1..Len(calls) : calls[i].line = line].body

FactoryBody(c, line) == BodyAt(rulesSetCalls(c), line)

\* What an accessor call does: its completion, the factories it invoked and
\* the `rules` map as the call leaves it.
Outcome(completion, factories, m) ==
    [threw |-> completion.threw, value |-> completion.value,
     invoked |-> factories, rules |-> m]

\* The factories of the rules the body refers to are run as well.
Invoke_inlining(c, build, fault, f, free) ==
    LET referenced == ReferencedNames(FactoryBody(c, f.line))
        inlined == SelectSeq(rulesSetCalls(c), LAMBDA r : r.name \in referenced)
    IN  [completion |-> Evaluate(build, fault, FactoryBody(c, f.line), free, <<>>),
         invoked |-> <<f.line>> \o [i \in 1..Len(inlined) |-> inlined[i].line]]

\* factory(): the body runs once; what it builds is what it returns.
Invoke(c, build, fault, f, free) ==
    [completion |-> Evaluate(build, fault, FactoryBody(c, f.line), free, <<>>),
     invoked |-> <<f.line>>]

----------------------------------------------------------------------------
(* Accessors *)

\* initial copy: return rules.get(name);
getRuleFactory(m, name) == Return(MapGet(m, name))

\* initial copy:
\*   const factory = rules.get(name);
\*   if (!factory) return Diagram(Comment(`No factory defined for ${name}`));
\*   return factory();
createRuleDiagram_initial(m, build, fault, name, free) ==
    LET factory == MapGet(m, name)
    IN  IF ~Truthy(factory)
        THEN Outcome(Evaluate(build, fault,
                              Diagram(<<Comment("No factory defined for " \o name)>>),
                              free, <<>>),
                     <<>>, m)
        ELSE LET run == Invoke("initial", build, fault, factory, free)
             IN  Outcome(run.completion, run.invoked, m)

\* revised copy:
\*   const factory = rules.get(name);
\*   return factory ? factory() : undefined;
createRuleDiagram_revised(m, build, fault, name, free) ==
    LET factory == MapGet(m, name)
    IN  IF Truthy(factory)
        THEN LET run == Invoke("revised", build, fault, factory, free)
             IN  Outcome(run.completion, run.invoked, m)
        ELSE Outcome(Return(Undefined), <<>>, m)

\* A lookup of an unknown name registers a factory for it.
createRuleDiagram_registering(c, m, build, fault, name, free) ==
    LET outcome == IF c = "initial"
                   THEN createRuleDiagram_initial(m, build, fault, name, free)
                   ELSE createRuleDiagram_revised(m, build, fault, name, free)
    IN  [outcome EXCEPT !.rules = IF MapHas(m, name) THEN m
                                  ELSE MapSet(m, name, Factory(0))]

\* A cache in front of the factories: the objects built by the first call
\* are handed out again.
createRuleDiagram_memoised(c, m, build, fault, name, free) ==
    IF c = "initial"
    THEN createRuleDiagram_initial(m, build, fault, name, 1)
    ELSE createRuleDiagram_revised(m, build, fault, name, 1)

createRuleDiagram(c, m, build, fault, name, free) ==
    IF c = "initial"
    THEN createRuleDiagram_initial(m, build, fault, name, free)
    ELSE createRuleDiagram_revised(m, build, fault, name, free)

\* revised copy: return Array.from(rules.keys());
getRuleNames(m) == Return(Arr(MapKeys(m)))

\* return EBNF_DEFINITIONS[name];
getEbnfDefinition(name) == Return(GetProperty(EBNF_DEFINITIONS, name))

\* Object.values where Object.keys was meant.
getEbnfRuleNames_values ==
    Return(Arr([i \in 1..Len(EBNF_DEFINITIONS) |-> EBNF_DEFINITIONS[i][2]]))

\* return Object.keys(EBNF_DEFINITIONS);
getEbnfRuleNames == Return(Arr(ObjectKeys(EBNF_DEFINITIONS)))

----------------------------------------------------------------------------
(* Arguments the accessors are called with *)

Range(seq) == {seq[i] : i \in 1..Len(seq)}

NamesOf(calls) == {calls[i].name : i \in 1..Len(calls)}

RegisteredNames(c) == NamesOf(rulesSetCalls(c))

\* Strings no copy registers: a made-up rule, the empty string, a name in
\* the wrong letter case, a padded name, and names every object inherits.
UnknownNames ==
    {"frobnicate-expression", "", "Digit", "digit ", "toString", "constructor",
     "hasOwnProperty", "__proto__", "valueOf"}

LookupNames == RegisteredNames("initial") \cup RegisteredNames("revised") \cup UnknownNames

----------------------------------------------------------------------------
(* Module initialisation and calls of the accessors *)

NoCall == [op |-> "none", arg |-> ""]
NoMemo == [has |-> FALSE]
NoResult == Return(Undefined)
NoKept == <<>>

\* The addresses of the objects of a diagram.
RECURSIVE Addresses(_)
Addresses(node) ==
    {node.id} \cup UNION {Addresses(node.items[i]) : i \in 1..Len(node.items)}

Max(S) == CHOOSE x \in S : \A y \in S : y <= x

\* The first address above every object the caller still holds.
FirstFree(held) ==
    Max({0} \cup UNION {Addresses(held[i].value.node) : i \in 1..Len(held)}) + 1

InitCatalog ==
    /\ copy \in Copies
    /\ rrBuild \in RRBuilds
    /\ pc = "load"
    /\ loaded = 0
    /\ rules = <<>>
    /\ call = NoCall
    /\ ret = NoResult
    /\ invoked = <<>>
    /\ kept = NoKept
    /\ input = Undefined
    /\ output = NoResult
    /\ rpc = "start"

\* Registration runs the factory it stores.
RulesSet_eager ==
    /\ pc = "load"
    /\ loaded < Len(rulesSetCalls(copy))
    /\ LET r == rulesSetCalls(copy)[loaded + 1]
       IN  /\ rules' = MapSet(rules, r.name, Factory(r.line))
           /\ invoked' = <<r.line>>
    /\ loaded' = loaded + 1
    /\ pc' = IF loaded + 1 = Len(rulesSetCalls(copy)) THEN "ready" ELSE "load"
    /\ UNCHANGED <<copy, rrBuild, call, ret, kept>>
    /\ UNCHANGED renderVars

\* The next rules.set(name, factory) statement of the module body.
RulesSet ==
    /\ pc = "load"
    /\ loaded < Len(rulesSetCalls(copy))
    /\ LET r == rulesSetCalls(copy)[loaded + 1]
       IN  rules' = MapSet(rules, r.name, Factory(r.line))
    /\ loaded' = loaded + 1
    /\ pc' = IF loaded + 1 = Len(rulesSetCalls(copy)) THEN "ready" ELSE "load"
    /\ UNCHANGED <<copy, rrBuild, call, ret, invoked, kept>>
    /\ UNCHANGED renderVars

Called(op, arg, outcome) ==
    /\ pc = "ready"
    /\ call' = [op |-> op, arg |-> arg]
    /\ ret' = [threw |-> outcome.threw, value |-> outcome.value]
    /\ invoked' = outcome.invoked
    /\ rules' = outcome.rules
    /\ pc' = "called"
    /\ UNCHANGED <<copy, rrBuild, loaded, kept>>
    /\ UNCHANGED renderVars

GetRuleFactory(name) ==
    /\ copy = "initial"
    /\ Called("getRuleFactory", name, Outcome(getRuleFactory(rules, name), <<>>, rules))

CreateRuleDiagram(name, fault) ==
    Called("createRuleDiagram", name,
           createRuleDiagram(copy, rules, rrBuild, fault, name, FirstFree(kept)))

GetRuleNames ==
    /\ copy = "revised"
    /\ Called("getRuleNames", "", Outcome(getRuleNames(rules), <<>>, rules))

\* ebnfDefinitions.ts does not import the `rules` map.
GetEbnfDefinition(name) ==
    Called("getEbnfDefinition", name, Outcome(getEbnfDefinition(name), <<>>, rules))

GetEbnfRuleNames ==
    Called("getEbnfRuleNames", "", Outcome(getEbnfRuleNames, <<>>, rules))

\* The diagram createRuleDiagram returned is handed to diagramToSvgString.
DiagramToSvgString(shape) ==
    /\ pc = "called"
    /\ call.op = "createRuleDiagram"
    /\ ~ret.threw
    /\ rpc = "start"
    /\ input' = ret.value
    /\ output' = diagramToSvgString(shape, ret.value)
    /\ rpc' = "done"
    /\ UNCHANGED catalogVars

\* The caller holds on to the diagram createRuleDiagram returned and goes on.
Keep ==
    /\ pc = "called"
    /\ call.op = "createRuleDiagram"
    /\ ~ret.threw
    /\ ret.value.t = "object"
    /\ Len(kept) < MaxKept
    /\ kept' = Append(kept, [arg |-> call.arg, value |-> ret.value])
    /\ pc' = "ready"
    /\ call' = NoCall
    /\ ret' = NoResult
    /\ invoked' = <<>>
    /\ UNCHANGED <<copy, rrBuild, loaded, rules>>
    /\ UNCHANGED renderVars

\* The caller takes the result; the module is ready for the next call.
Resume ==
    /\ pc = "called"
    /\ pc' = "ready"
    /\ call' = NoCall
    /\ ret' = NoResult
    /\ invoked' = <<>>
    /\ input' = Undefined
    /\ output' = NoResult
    /\ rpc' = "start"
    /\ UNCHANGED <<copy, rrBuild, loaded, rules, kept>>

NextCatalog ==
    \/ RulesSet
    \/ \E name \in LookupNames : GetRuleFactory(name)
    \/ \E name \in LookupNames, fault \in Faults : CreateRuleDiagram(name, fault)
    \/ GetRuleNames
    \/ \E name \in LookupNames : GetEbnfDefinition(name)
    \/ GetEbnfRuleNames
    \/ \E shape \in RRShapes : DiagramToSvgString(shape)
    \/ Resume

----------------------------------------------------------------------------
(* Bounded inputs *)

RECURSIVE StringsUpTo(_)
StringsUpTo(k) ==
    IF k = 0 THEN {""}
    ELSE LET shorter == StringsUpTo(k - 1)
         IN  shorter \cup {s \o c : s \in shorter, c \in Alphabet}

RECURSIVE ListsUpTo(_, _)
ListsUpTo(S, k) ==
    IF k = 0 THEN {<<>>}
    ELSE LET shorter == ListsUpTo(S, k - 1)
         IN  shorter \cup {Append(l, x) : l \in shorter, x \in S}

\* Names the argument lists are built from: lower, upper and mixed case,
\* one with inner white space.
NamePool == {"a", "b", "Ab", "b a", "BA"}

Queries == StringsUpTo(MaxQueryLen)
NameLists == ListsUpTo(NamePool, MaxNames)

----------------------------------------------------------------------------
(* Specification of one filterNames call on arbitrary bounded inputs *)

\* The catalog module takes no part in this specification.
CatalogUnused ==
    /\ copy = "revised"
    /\ rrBuild = "functions"
    /\ pc = "unused"
    /\ loaded = 0
    /\ rules = <<>>
    /\ call = NoCall
    /\ ret = NoResult
    /\ invoked = <<>>
    /\ kept = NoKept

\* App takes no part in this specification.
AppUnused ==
    /\ memo = NoMemo
    /\ view = <<>>

\* diagramToSvgString takes no part in this specification.
RenderUnused ==
    /\ input = Undefined
    /\ output = NoResult
    /\ rpc = "unused"

InitFilter ==
    /\ query \in Queries
    /\ names \in NameLists
    /\ result = <<>>
    /\ fpc = "start"
    /\ CatalogUnused
    /\ RenderUnused
    /\ AppUnused

CallFilterNames ==
    /\ fpc = "start"
    /\ result' = filterNames(query, names)
    /\ fpc' = "done"
    /\ UNCHANGED <<query, names>>
    /\ UNCHANGED catalogVars
    /\ UNCHANGED renderVars
    /\ UNCHANGED appVars

NextFilter == CallFilterNames

SpecFilter == InitFilter /\ [][NextFilter]_vars

----------------------------------------------------------------------------
(* Specification of the catalog module: initialisation, then accessor calls *)

\* filterNames takes no part in this specification.
FilterUnused ==
    /\ query = ""
    /\ names = <<>>
    /\ result = <<>>
    /\ fpc = "unused"

InitCatalogSpec == InitCatalog /\ FilterUnused /\ AppUnused

NextCatalogSpec == NextCatalog /\ UNCHANGED filterVars /\ UNCHANGED appVars

SpecCatalog == InitCatalogSpec /\ [][NextCatalogSpec]_vars

----------------------------------------------------------------------------
(* Specification of repeated createRuleDiagram calls by a caller that holds
   on to earlier results *)

\* Names the repeated calls are made with: the block-bodied factory, rules
\* built with the chain helper, mutually recursive rules, rules only the
\* initial copy registers, and a name no copy registers.
RepeatNames ==
    {"postfix-expression", "multiplicative-expression", "and-expression",
     "expression", "assignment-expression", "keyword", "import-keyword",
     "typedef-name", "frobnicate-expression"}

NextRepeat ==
    \/ RulesSet
    \/ \E name \in RepeatNames, fault \in Faults : CreateRuleDiagram(name, fault)
    \/ Keep
    \/ Resume

NextRepeatSpec == NextRepeat /\ UNCHANGED filterVars /\ UNCHANGED appVars

SpecRepeat == InitCatalogSpec /\ [][NextRepeatSpec]_vars

----------------------------------------------------------------------------
(* Specification of a module body that is an arbitrary sequence of rules.set
   statements, repeated names included *)

\* Names the statements register.
RegisterNames == {"digit", "keyword", "typedef-name"}

\* rules.set(name, factory): the next statement of the body.  The factory is
\* identified by the position of its statement.
Register(name) ==
    /\ pc = "load"
    /\ loaded < MaxStatements
    /\ rules' = MapSet(rules, name, Factory(loaded + 1))
    /\ loaded' = loaded + 1
    /\ call' = [op |-> "rules.set", arg |-> name]
    /\ UNCHANGED <<copy, rrBuild, pc, ret, invoked, kept>>
    /\ UNCHANGED renderVars

NextRegister == \E name \in RegisterNames : Register(name)

NextRegisterSpec == NextRegister /\ UNCHANGED filterVars /\ UNCHANGED appVars

SpecRegister == InitCatalogSpec /\ [][NextRegisterSpec]_vars

----------------------------------------------------------------------------
(* Specification of one callOrNew call on an arbitrary constructor *)

\* What a plain call or a construction may throw: the engine's error for a
\* class called without `new`, other TypeErrors, errors of other classes
\* (one of them with the tell-tale words in its message), and values that
\* are not errors.
CtorThrows ==
    {MissingNew("Choice"),
     ErrorValue("TypeError", "without 'new'"),
     ErrorValue("TypeError", "items is not iterable"),
     ErrorValue("TypeError", "cannot be invoked without new"),
     ErrorValue("TypeError", ""),
     ErrorValue("Error", "Class constructor Choice cannot be invoked without 'new'"),
     ErrorValue("RangeError", "normal must be an index of items"),
     PrimitiveFailure("Choice"),
     Str("without 'new'"), Undefined}

\* What a plain call or a construction may return.
CtorReturns == {RRObject(Choice(0, <<T("a")>>)), Undefined}

CtorCompletions ==
    {Return(v) : v \in CtorReturns} \cup {Throw(e) : e \in CtorThrows}

Ctors == {Callable(onCall, onNew) : onCall \in CtorCompletions,
                                    onNew \in CtorCompletions}

InitCallOrNew ==
    /\ input \in Ctors
    /\ output = NoResult
    /\ rpc = "start"
    /\ CatalogUnused
    /\ query = ""
    /\ names = <<>>
    /\ result = <<>>
    /\ fpc = "unused"
    /\ AppUnused

CallCallOrNew ==
    /\ rpc = "start"
    /\ LET made == callOrNew(input)
       IN  /\ output' = [threw |-> made.threw, value |-> made.value]
           /\ invoked' = made.invoked
    /\ rpc' = "done"
    /\ UNCHANGED input
    /\ UNCHANGED <<copy, rrBuild, pc, loaded, rules, call, ret, kept>>
    /\ UNCHANGED filterVars
    /\ UNCHANGED appVars

NextCallOrNew == CallCallOrNew

SpecCallOrNew == InitCallOrNew /\ [][NextCallOrNew]_vars

----------------------------------------------------------------------------
(* Specification of one diagramToSvgString call on an arbitrary value *)

\* What a toSVG member may return.
SvgResults ==
    {Str("<svg></svg>"), Str(""),
     DomNode(Str("<svg></svg>"), Return(Str("<svg></svg>"))),
     DomNode(Undefined, Return(Str("<svg/>"))),
     DomNode(Undefined, Throw(NoXMLSerializer)),
     DomNode(Num(42), Return(Str("<svg/>"))),
     Undefined, Null, Num(7), PlainObject}

\* What a toSVG or toString member may throw.
ThrownValues ==
    {ErrorValue("Error", "boom"), ErrorValue("Error", ""),
     ErrorValue("Error", "--><img src=x>"), ErrorWithMessage(Undefined),
     ErrorWithMessage(Num(404)), ErrorWithMessage(Symbol("m")),
     Str("boom"), Undefined, Null, Num(3), PlainObject, BareObject,
     ThrowingMessage(ErrorValue("Error", "no message"))}

\* What a toString member may return.
ToStringResults ==
    {Str("<svg>text</svg>"), Str(""), Num(5), Undefined, Symbol("d"),
     PlainObject, BareObject}

ToSVGMembers ==
    {Absent, NotCallable} \cup {Returns(v) : v \in SvgResults}
        \cup {Throws(e) : e \in ThrownValues}

ToStringMembers ==
    {Absent, NotCallable} \cup {Returns(v) : v \in ToStringResults}
        \cup {Throws(e) : e \in ThrownValues}

RenderInputs ==
    {Undefined, Null, Bool(FALSE), Bool(TRUE), Num(0), Num(5), Str(""), Str("x"),
     Symbol("d"), RRObject(Diagram(<<T("a<b"), NT("c")>>))}
        \cup {ObjectWith(toSVG, toString) :
                 toSVG \in ToSVGMembers, toString \in ToStringMembers}

InitRender ==
    /\ input \in RenderInputs
    /\ output = NoResult
    /\ rpc = "start"
    /\ CatalogUnused
    /\ query = ""
    /\ names = <<>>
    /\ result = <<>>
    /\ fpc = "unused"
    /\ AppUnused

CallDiagramToSvgString(shape) ==
    /\ rpc = "start"
    /\ output' = diagramToSvgString(shape, input)
    /\ rpc' = "done"
    /\ UNCHANGED input
    /\ UNCHANGED catalogVars
    /\ UNCHANGED filterVars
    /\ UNCHANGED appVars

NextRender == \E shape \in RRShapes : CallDiagramToSvgString(shape)

SpecRender == InitRender /\ [][NextRender]_vars

----------------------------------------------------------------------------
(* App: the query state, the memoised filter and the rendered sections *)

\* The dependency array of the useMemo call: [query].
useMemoDeps_empty(q) == <<>>

useMemoDeps(q) == <<q>>

\* The useMemo callback:
\*   const out = {};
\*   for (const s of SECTION_ORDER) out[s] = filterNames(SECTION_RULES[s]);
\*   return out;
\* filterNames reads the query of the render that runs the callback.
computeFilteredBySection(c, q) ==
    [s \in Range(SECTION_ORDER(c)) |-> filterNames(q, SECTION_RULES(c)[s])]

\* React.useMemo: the callback runs on the first render and whenever an
\* entry of the dependency array differs from the one of the previous
\* render; otherwise the cached value is returned.
useMemo(cell, c, q) ==
    LET deps == useMemoDeps(q)
    IN  IF \/ ~cell.has
           \/ \E i \in 1..Len(deps) : deps[i] # cell.deps[i]
        THEN [has |-> TRUE, deps |-> deps, value |-> computeFilteredBySection(c, q)]
        ELSE cell

\* <nav>{SECTION_ORDER.map((s) => <a key={s} href={`#${s}`}> ... )}</nav>
renderNav(c) ==
    [i \in 1..Len(SECTION_ORDER(c)) |->
        LET s == SECTION_ORDER(c)[i]
        IN  [href |-> "#" \o s, title |-> SECTION_TITLES(c)[s]]]

\* Sections whose filtered list is empty are left out.
renderSections_skipEmpty(c, filteredBySection) ==
    SelectSeq([i \in 1..Len(SECTION_ORDER(c)) |->
                  LET s == SECTION_ORDER(c)[i]
                  IN  [id |-> s, title |-> SECTION_TITLES(c)[s],
                       names |-> filteredBySection[s]]],
              LAMBDA section : section.names # <<>>)

\* <main>{SECTION_ORDER.map((s) => <section key={s} id={s}> ... )}</main>
renderSections(c, filteredBySection) ==
    [i \in 1..Len(SECTION_ORDER(c)) |->
        LET s == SECTION_ORDER(c)[i]
        IN  [id |-> s, title |-> SECTION_TITLES(c)[s], names |-> filteredBySection[s]]]

\* One render of App with query state q.
Render(q) ==
    /\ memo' = useMemo(memo, copy, q)
    /\ view' = renderSections(copy, memo'.value)

\* What the input holds after one more keystroke: a character typed at
\* the end, or the last character deleted.
AfterKeystroke(q) ==
    (IF Len(q) < MaxQueryLen THEN {q \o ch : ch \in Alphabet} ELSE {})
        \cup (IF Len(q) > 0 THEN {SubSeq(q, 1, Len(q) - 1)} ELSE {})
        \cup {q}

InitApp ==
    /\ copy \in Copies
    /\ query = ""
    /\ memo = NoMemo
    /\ view = <<>>
    /\ rrBuild = "functions"
    /\ pc = "unused"
    /\ loaded = 0
    /\ rules = <<>>
    /\ call = NoCall
    /\ ret = NoResult
    /\ invoked = <<>>
    /\ kept = NoKept
    /\ RenderUnused
    /\ names = <<>>
    /\ result = <<>>
    /\ fpc = "unused"

\* First render: useState("") gives the empty query.
Mount ==
    /\ view = <<>>
    /\ query' = ""
    /\ Render("")
    /\ UNCHANGED <<names, result, fpc>>
    /\ UNCHANGED catalogVars
    /\ UNCHANGED renderVars

\* onChange={(e) => setQuery(e.target.value)} followed by the re-render.
OnChange(value) ==
    /\ view # <<>>
    /\ query' = value
    /\ Render(value)
    /\ UNCHANGED <<names, result, fpc>>
    /\ UNCHANGED catalogVars
    /\ UNCHANGED renderVars

NextApp ==
    \/ Mount
    \/ \E value \in AfterKeystroke(query) : OnChange(value)

SpecApp == InitApp /\ [][NextApp]_vars

----------------------------------------------------------------------------
(* Properties of filterNames *)

RECURSIVE IsSubsequence(_, _)
IsSubsequence(a, b) ==
    IF Len(a) = 0 THEN TRUE
    ELSE IF Len(b) = 0 THEN FALSE
    ELSE IF Head(a) = Head(b) THEN IsSubsequence(Tail(a), Tail(b))
    ELSE IsSubsequence(a, Tail(b))

\* n has a substring that equals q once letter case is ignored.
ContainsIgnoringCase(n, q) ==
    \/ Len(q) = 0
    \/ \E i \in 1..Len(n) : \E j \in i..Len(n) :
          toLowerCase(SubSeq(n, i, j)) = toLowerCase(q)

OnlyWhiteSpace(s) == \A i \in 1..Len(s) : CharAt(s, i) \in WhiteSpace

\* The query with its leading and trailing white space removed.
Trimmed(s) ==
    IF OnlyWhiteSpace(s) THEN ""
    ELSE LET first == CHOOSE i \in 1..Len(s) :
                        /\ CharAt(s, i) \notin WhiteSpace
                        /\ \A k \in 1..(i - 1) : CharAt(s, k) \in WhiteSpace
             last  == CHOOSE j \in 1..Len(s) :
                        /\ CharAt(s, j) \notin WhiteSpace
                        /\ \A k \in (j + 1)..Len(s) : CharAt(s, k) \in WhiteSpace
         IN  SubSeq(s, first, last)

MatchingPositions(ns, q) ==
    {i \in 1..Len(ns) : ContainsIgnoringCase(ns[i], q)}

\* C1: for a query whose trimmed, lower-cased form q is non-empty,
\* filterNames returns exactly the names whose lower-cased form contains q:
\* the result is a subsequence of `names`, every kept name matches, and
\* as many names are kept as there are matching positions in `names`.
C1_FilterExact ==
    (fpc = "done" /\ ~OnlyWhiteSpace(query)) =>
        /\ IsSubsequence(result, names)
        /\ \A i \in 1..Len(result) : ContainsIgnoringCase(result[i], Trimmed(query))
        /\ Len(result) = Cardinality(MatchingPositions(names, Trimmed(query)))

\* A query with surrounding white space and an upper-case letter keeps one
\* name and drops another.
C1_Witness ==
    /\ fpc = "done"
    /\ ~OnlyWhiteSpace(query)
    /\ Trimmed(query) # query
    /\ toLowerCase(query) # query
    /\ Len(names) = 2
    /\ Len(result) = 1

\* C2 as stated: every name in the result contains the query exactly as
\* typed (surrounding white space included), ignoring letter case.
C2_ContainsQueryAsTyped ==
    fpc = "done" =>
        \A i \in 1..Len(result) : ContainsIgnoringCase(result[i], query)

\* C2 amended: every name in the result contains the trimmed query as a
\* case-insensitive substring.
C2_ContainsTrimmedQuery ==
    fpc = "done" =>
        \A i \in 1..Len(result) : ContainsIgnoringCase(result[i], Trimmed(query))

\* A query padded with white space keeps a name that does not contain the
\* padded query.
C2_Witness ==
    /\ fpc = "done"
    /\ ~OnlyWhiteSpace(query)
    /\ Trimmed(query) # query
    /\ Len(result) > 0
    /\ \E i \in 1..Len(result) : ~ContainsIgnoringCase(result[i], query)

\* C3: for an empty or white-space-only query filterNames returns the list
\* it was given: same elements, same order.
C3_BlankQueryReturnsAll ==
    (fpc = "done" /\ OnlyWhiteSpace(query)) => result = names

\* A white-space-only query applied to a non-empty list with a name that
\* holds no white space.
C3_Witness ==
    /\ fpc = "done"
    /\ Len(query) > 0
    /\ OnlyWhiteSpace(query)
    /\ Len(names) > 0
    /\ \E i \in 1..Len(names) : ~includes(names[i], " ")
    /\ result = names

----------------------------------------------------------------------------
(* Properties of App *)

\* C4: after any sequence of query edits, the list shown for each section
\* of SECTION_ORDER, and the memoised filteredBySection behind it, is
\* filterNames(SECTION_RULES[section]) for the current query.
C4_ViewMatchesQuery ==
    view # <<>> =>
        /\ Len(view) = Len(SECTION_ORDER(copy))
        /\ \A i \in 1..Len(view) :
              /\ view[i].id = SECTION_ORDER(copy)[i]
              /\ view[i].names = filterNames(query, SECTION_RULES(copy)[view[i].id])
              /\ memo.value[view[i].id] = view[i].names

\* A non-blank query is on screen, and it empties one section and keeps
\* part of another.
C4_Witness ==
    /\ view # <<>>
    /\ ~OnlyWhiteSpace(query)
    /\ \E i \in 1..Len(view) : view[i].names = <<>>
    /\ \E i \in 1..Len(view) :
          /\ view[i].names # <<>>
          /\ Len(view[i].names) < Len(SECTION_RULES(copy)[view[i].id])

----------------------------------------------------------------------------
(* Properties of the catalog *)

\* The catalog module has run all its rules.set statements.
Loaded == pc \in {"ready", "called"}

\* The positions <<section, index>> of all the section lists of a copy.
SectionEntries(c) ==
    UNION {{<<s, i>> : i \in 1..Len(SECTION_RULES(c)[s])} : s \in DOMAIN SECTION_RULES(c)}

\* C5: for the revised catalog, the names getRuleNames() returns are, as a
\* set, the names getEbnfRuleNames() returns.
C5_CoverageEqual ==
    (copy = "revised" /\ pc = "called"
        /\ call.op \in {"getRuleNames", "getEbnfRuleNames"}) =>
        /\ ~ret.threw
        /\ Range(ret.value.elems) =
              Range((IF call.op = "getRuleNames"
                     THEN getEbnfRuleNames
                     ELSE getRuleNames(rules)).value.elems)

\* getRuleNames() has returned the names of the loaded revised catalog.
C5_Witness ==
    /\ copy = "revised"
    /\ pc = "called"
    /\ call.op = "getRuleNames"
    /\ Len(ret.value.elems) = Len(rulesSetCalls_revised)

\* The names listed in the sections of a copy, and the number of positions
\* they are listed at.
ListedNames(c) == {SECTION_RULES(c)[e[1]][e[2]] : e \in SectionEntries(c)}
Listed_initial ==
    [names |-> ListedNames("initial"), count |-> Cardinality(SectionEntries("initial"))]
Listed_revised ==
    [names |-> ListedNames("revised"), count |-> Cardinality(SectionEntries("revised"))]

\* C6: in each copy, once the module is loaded, every name listed in
\* SECTION_RULES is registered in `rules`, every registered name is listed
\* in some section, and no name is listed twice across the sections.
C6_SectionsPartitionRules ==
    Loaded =>
        LET listed == IF copy = "initial" THEN Listed_initial ELSE Listed_revised
            registered == Range(MapKeys(rules))
        IN  /\ listed.names \subseteq registered
            /\ registered \subseteq listed.names
            /\ listed.count = Cardinality(listed.names)

\* The initial copy is loaded: its 354 rules are listed in its sections.
C6_Witness ==
    /\ Loaded
    /\ copy = "initial"
    /\ Len(rules) = Len(rulesSetCalls_initial)
    /\ MapHas(rules, "import-keyword")

\* C7 as stated: every call of createRuleDiagram, getRuleFactory and
\* getEbnfDefinition returns a value and does not throw, also when the
\* registered factory fails while it constructs its nodes.
C7_LookupsNeverThrow ==
    (pc = "called"
        /\ call.op \in {"createRuleDiagram", "getRuleFactory", "getEbnfDefinition"})
        => ~ret.threw

\* What diagramToSvgString returns for the diagrams of the registered rules
\* of a copy, over the builds of the library.
RenderedRules(c) ==
    {diagramToSvgString(shape,
         RRObject(Evaluate("functions", "none", rulesSetCalls(c)[i].body, 1, <<>>).value.node))
       : shape \in RRShapes, i \in 1..Len(rulesSetCalls(c))}

RenderedRules_initial == RenderedRules("initial")
RenderedRules_revised == RenderedRules("revised")

\* C8: for a name that is not registered, the initial copy returns a
\* diagram holding only the comment "No factory defined for <name>", the
\* revised copy returns undefined, which diagramToSvgString turns into
\* "<!-- empty diagram -->"; either way the rendered string differs from
\* the rendered string of every registered rule.
C8_UnknownNamePlaceholder ==
    (pc = "called" /\ rpc = "done" /\ ~MapHas(rules, call.arg)) =>
        /\ ~output.threw
        /\ output.value.t = "string"
        /\ copy = "initial" =>
              /\ input.t = "object"
              /\ Shape(input.node) = Diagram(<<Comment("No factory defined for "
                                                          \o call.arg)>>)
              /\ output \notin RenderedRules_initial
        /\ copy = "revised" =>
              /\ input = Undefined
              /\ output = Return(Str("<!-- empty diagram -->"))
              /\ output \notin RenderedRules_revised

\* The revised copy has rendered a name only the initial copy registers.
C8_Witness ==
    /\ pc = "called"
    /\ rpc = "done"
    /\ copy = "revised"
    /\ call.arg = "import-keyword"
    /\ ~MapHas(rules, call.arg)
    /\ output = Return(Str("<!-- empty diagram -->"))

\* C9 as stated: getEbnfDefinition(name) returns the authored text when
\* name is a key of EBNF_DEFINITIONS and undefined for every other string.
C9_EbnfTextOrUndefined ==
    (pc = "called" /\ call.op = "getEbnfDefinition") =>
        ret = IF HasOwn(EBNF_DEFINITIONS, call.arg)
              THEN Return(Str(OwnValue(EBNF_DEFINITIONS, call.arg)))
              ELSE Return(Undefined)

----------------------------------------------------------------------------
(* Properties of diagramToSvgString *)

\* C10 as stated: diagramToSvgString never throws and always returns a
\* string, whatever the value it is given and whatever its toSVG and
\* toString members do.
C10_AlwaysReturnsString ==
    rpc = "done" => (~output.threw /\ output.value.t = "string")

\* The toSVG member of an input object did not give a serialisable result:
\* it threw, or it returned neither a string nor a DOM node.
NativeExportFailed(v) ==
    /\ v.t = "object"
    /\ "toSVG" \in DOMAIN v
    /\ \/ v.toSVG.m = "throws"
       \/ v.toSVG.m = "returns" /\ v.toSVG.v.t \notin {"string", "node"}

\* The toString member of an input object returns a string.
GenericSerialisationWorks(v) ==
    /\ v.t = "object"
    /\ "toString" \in DOMAIN v
    /\ v.toString.m = "returns"
    /\ v.toString.v.t = "string"

\* C11 as stated: when the native toSVG export fails (throws, or returns
\* neither a string nor a DOM node) diagramToSvgString goes on to the
\* toString serialisation, so an input whose toString returns a string is
\* rendered as that string; a placeholder appears only when both failed.
C11_FallbackOrder ==
    (rpc = "done" /\ NativeExportFailed(input) /\ GenericSerialisationWorks(input))
        => output = Return(input.toString.v)

\* A comment marker: "<!-- ... -->".
IsMarker(str) ==
    /\ Len(str) >= 7
    /\ SubSeq(str, 1, 4) = "<!--"
    /\ SubSeq(str, Len(str) - 2, Len(str)) = "-->"

\* The input takes one of the failure paths: no diagram, a toSVG that
\* throws or returns an unexpected value, or no toSVG together with a
\* toString that is missing or throws.
FailurePath(v) ==
    \/ Falsy(v)
    \/ NativeExportFailed(v)
    \/ /\ v.t = "object"
       /\ "toSVG" \in DOMAIN v
       /\ v.toSVG.m \in {"absent", "value"}
       /\ v.toString.m \in {"absent", "value", "throws"}

\* C12 as stated: diagramToSvgString never returns an empty string, and on
\* every failure path it returns a non-empty comment marker.
C12_FailuresAreMarked ==
    rpc = "done" =>
        /\ ~output.threw
        /\ output.value.t = "string"
        /\ output.value.s # ""
        /\ FailurePath(input) => IsMarker(output.value.s)

----------------------------------------------------------------------------
(* Properties of the diagrams createRuleDiagram builds *)

\* createRuleDiagram has been called with a registered name.
BuiltRegistered ==
    /\ pc = "called"
    /\ call.op = "createRuleDiagram"
    /\ MapHas(rules, call.arg)

\* C14: createRuleDiagram(n) for a registered n invokes one factory, the
\* function getRuleFactory(n) returns, and returns what that factory builds;
\* a diagram returned by an earlier call for the same n has the same kinds
\* and children at every position, and shares no object with this one.
C14_FreshInvocation ==
    BuiltRegistered =>
        LET factory == getRuleFactory(rules, call.arg).value
            direct == Evaluate("functions", "none",
                               FactoryBody(copy, factory.line), 1, <<>>)
        IN  /\ invoked = <<factory.line>>
            /\ ~ret.threw =>
                  /\ Shape(ret.value.node) = Shape(direct.value.node)
                  /\ \A i \in 1..Len(kept) :
                        /\ Addresses(kept[i].value.node)
                              \cap Addresses(ret.value.node) = {}
                        /\ kept[i].arg = call.arg =>
                              Shape(kept[i].value.node) = Shape(ret.value.node)

\* The second call for postfix-expression has returned while the caller
\* holds the diagram of the first, under the class build of the library.
C14_Witness ==
    /\ BuiltRegistered
    /\ ~ret.threw
    /\ rrBuild = "classes"
    /\ call.arg = "postfix-expression"
    /\ Len(kept) = 1
    /\ kept[1].arg = call.arg
    /\ Cardinality(Addresses(ret.value.node)) > 1

\* createRuleDiagram has returned the diagram of a registered rule.
ReturnedRegistered == BuiltRegistered /\ ~ret.threw

\* C15 as stated: every name a NonTerminal node of a rule's diagram carries
\* is registered in the `rules` map of the same copy.
C15_NoDanglingReferences ==
    ReturnedRegistered =>
        \A name \in ReferencedNames(ret.value.node) : MapHas(rules, name)

\* The NonTerminal nodes of the returned diagram whose name is not
\* registered.
DanglingNodes ==
    {n \in Nodes(ret.value.node) : n.kind = "NonTerminal" /\ ~MapHas(rules, n.text)}

\* A built node apart from its label and its address.
Unlabelled(node) == [Shape(node) EXCEPT !.text = ""]

\* C16 as stated: the node built for a reference to an unregistered name
\* differs from the node built for a reference to a registered name by more
\* than the name it carries, so that it is drawn as a distinct placeholder.
C16_DanglingIsDistinguishable ==
    ReturnedRegistered =>
        \A n \in DanglingNodes : Unlabelled(n) # Unlabelled(NonTerminal("typedef-name"))

\* C17: every Choice node of a rule's diagram has at least one alternative
\* and a default index that is a position of its alternatives.
C17_ChoiceDefaultInRange ==
    ReturnedRegistered =>
        \A n \in Nodes(ret.value.node) :
            n.kind = "Choice" =>
                /\ Len(n.items) >= 1
                /\ 0 <= n.index
                /\ n.index < Len(n.items)

\* The chain helper has built the Choice of a precedence level with a
\* single operator.
C17_Witness ==
    /\ ReturnedRegistered
    /\ copy = "revised"
    /\ call.arg = "and-expression"
    /\ \E n \in Nodes(ret.value.node) :
          n.kind = "Choice" /\ Len(n.items) = 1 /\ n.index = 0

\* C18: a rule's diagram is a tree by object identity: it has as many
\* objects as positions, and no object lies below itself.
C18_TreeByIdentity ==
    ReturnedRegistered =>
        /\ Cardinality(Addresses(ret.value.node)) = Size(ret.value.node)
        /\ \A n \in Nodes(ret.value.node) :
              \A i \in 1..Len(n.items) : n.id \notin Addresses(n.items[i])

\* The revised postfix-expression factory has returned: the object held by
\* its local sits below a ZeroOrMore node.
C18_Witness ==
    /\ ReturnedRegistered
    /\ copy = "revised"
    /\ call.arg = "postfix-expression"
    /\ \E n \in Nodes(ret.value.node) :
          /\ n.kind = "ZeroOrMore"
          /\ n.items[1].kind = "Choice"
          /\ n.items[1].id < n.id - 1

\* C19: a lookup of a registered name completes having invoked exactly one
\* factory, and every NonTerminal node of the result is a leaf that only
\* carries the referenced name: no referenced rule is expanded.
C19_OneFactoryNoExpansion ==
    BuiltRegistered =>
        /\ Len(invoked) = 1
        /\ ~ret.threw =>
              \A n \in Nodes(ret.value.node) :
                  n.kind = "NonTerminal" => Shape(n) = NonTerminal(n.text)

\* conditional-expression, which refers back to expression and to
\* assignment-expression, has been built.
C19_Witness ==
    /\ ReturnedRegistered
    /\ call.arg = "conditional-expression"
    /\ {"expression", "assignment-expression"} \subseteq ReferencedNames(ret.value.node)
    /\ "conditional-expression" \in
          ReferencedNames(FactoryBody(copy, MapGet(rules, "assignment-expression").line))
    /\ Len(invoked) = 1

----------------------------------------------------------------------------
(* Properties of particular rules and of registration *)

\* The ten Terminal nodes "0" .. "9", in that order.
DigitTerminals == [i \in 1..10 |-> Terminal(NumberToString(i - 1))]

\* C21 as stated: in the copy that is built, createRuleDiagram("digit")
\* returns a diagram holding one Choice with default index 0 whose
\* alternatives are the ten Terminal nodes "0" .. "9" in that order.
C21_DigitIsChoiceOfTen ==
    (ReturnedRegistered /\ call.arg = "digit") =>
        Shape(ret.value.node) = Diagram(<<Choice(0, DigitTerminals)>>)

\* C22 as stated: a node construction that the library rejects inside a
\* rule definition is reported while the module body runs its rules.set
\* statements; no accessor call made after loading completes with the
\* primitive's error.
C22_MalformedDetectedAtLoad ==
    \A kind \in Kinds : ret = Throw(PrimitiveFailure(kind)) => pc = "load"

\* C23: construction is lazy.  While the module body registers its rules no
\* factory has been invoked and nothing has been built; afterwards a factory
\* is invoked only by createRuleDiagram, and then it is the one factory
\* registered under the name looked up, invoked once; getRuleFactory hands
\* the factory out without invoking it.
C23_LazyConstruction ==
    /\ pc \in {"load", "ready"} => (invoked = <<>> /\ ret = NoResult)
    /\ pc = "called" =>
          /\ invoked # <<>> =>
                /\ call.op = "createRuleDiagram"
                /\ MapHas(rules, call.arg)
                /\ invoked = <<MapGet(rules, call.arg).line>>
          /\ (call.op = "getRuleFactory" /\ MapHas(rules, call.arg)) =>
                /\ invoked = <<>>
                /\ ret = Return(MapGet(rules, call.arg))

\* All rules are registered and only "digit" has been looked up: its
\* factory, and no other, has run.
C23_Witness ==
    /\ Loaded
    /\ pc = "called"
    /\ call = [op |-> "createRuleDiagram", arg |-> "digit"]
    /\ invoked = <<MapGet(rules, "digit").line>>
    /\ ~ret.threw

\* No rules.set statement of a shipped copy repeats the name of an earlier
\* one.
ShippedNamesDistinct ==
    \A c \in Copies : Cardinality(RegisteredNames(c)) = Len(rulesSetCalls(c))

\* C24: registration is last-write-wins.  After each rules.set(n, f) a
\* lookup of n returns f, the lookup of every other name is as before, the
\* map holds one entry per name (it grows by one exactly when n is new);
\* and no shipped copy registers a name twice.
C24_LastWriteWins ==
    [][loaded' = loaded + 1 =>
         LET n == call'.arg
         IN  /\ getRuleFactory(rules', n) = Return(Factory(loaded'))
             /\ \A k \in RegisterNames \ {n} :
                   getRuleFactory(rules', k) = getRuleFactory(rules, k)
             /\ Len(rules') = IF MapHas(rules, n) THEN Len(rules) ELSE Len(rules) + 1
             /\ \A i, j \in 1..Len(rules') : rules'[i].key = rules'[j].key => i = j
             /\ ShippedNamesDistinct]_vars

\* A name has been registered a second time: the map still has one entry
\* for it, holding the later factory.
C24_Witness ==
    /\ call.op = "rules.set"
    /\ loaded = 3
    /\ Len(rules) = 2
    /\ MapGet(rules, call.arg) = Factory(3)
    /\ rules[1].key = call.arg

\* The thrown value is a TypeError whose message contains "without 'new'".
MissingNewError(e) ==
    /\ e.t = "error"
    /\ e.ctor = "TypeError"
    /\ \E i \in 1..Len(e.message.s) :
          /\ i + 12 <= Len(e.message.s)
          /\ SubSeq(e.message.s, i, i + 12) = "without 'new'"

\* C25: callOrNew calls Ctor as a plain function first and returns what the
\* call returns; when the call throws a TypeError whose message contains
\* "without 'new'" it constructs with `new` and completes as the construction
\* does; every other thrown value is thrown on unchanged with no second
\* attempt; Ctor is invoked twice at most.
C25_PlainCallThenNew ==
    rpc = "done" =>
        LET plain == input.onCall
        IN  /\ invoked[1] = "call"
            /\ Len(invoked) <= 2
            /\ ~plain.threw => (output = plain /\ invoked = <<"call">>)
            /\ (plain.threw /\ MissingNewError(plain.value)) =>
                  (output = input.onNew /\ invoked = <<"call", "new">>)
            /\ (plain.threw /\ ~MissingNewError(plain.value)) =>
                  (output = plain /\ invoked = <<"call">>)

\* A class constructor was called without `new`, and the construction with
\* `new` returned the object.
C25_Witness ==
    /\ rpc = "done"
    /\ input.onCall = Throw(MissingNew("Choice"))
    /\ invoked = <<"call", "new">>
    /\ output = Return(RRObject(Choice(0, <<T("a")>>)))

----------------------------------------------------------------------------
(* Properties of the section tables and of App's sections *)

\* C26 as stated: for every name listed in a section of the copy that is
\* built, getEbnfDefinition returns a string.
C26_ListedNamesHaveEbnf ==
    (pc = "called" /\ call.op = "getEbnfDefinition"
        /\ call.arg \in (IF copy = "initial" THEN Listed_initial
                                              ELSE Listed_revised).names) =>
        /\ ~ret.threw
        /\ ret.value.t = "string"

\* C27: in the copy App is built with, SECTION_ORDER holds 13 pairwise
\* distinct section ids, and SECTION_TITLES and SECTION_RULES each have
\* exactly these ids as keys.
C27_SectionTablesConsistent ==
    LET order == SECTION_ORDER(copy)
    IN  /\ Len(order) = 13
        /\ Cardinality(Range(order)) = 13
        /\ DOMAIN SECTION_TITLES(copy) = Range(order)
        /\ DOMAIN SECTION_RULES(copy) = Range(order)

\* App has rendered the revised copy: the eighth section carries the title
\* and the rule list stored under its id.
C27_Witness ==
    /\ view # <<>>
    /\ copy = "revised"
    /\ query = ""
    /\ view[8].id = "modules"
    /\ view[8].title = SECTION_TITLES_revised["modules"]
    /\ view[8].names = SECTION_RULES_revised["modules"]

\* C28: after any sequence of query edits, <main> holds one section element
\* for every id of SECTION_ORDER, in that order, whether or not the filtered
\* list of the section is empty; so the target of every navigation link is
\* the id of exactly one rendered section.
C28_EverySectionRendered ==
    view # <<>> =>
        /\ [i \in 1..Len(view) |-> view[i].id] = SECTION_ORDER(copy)
        /\ \A k \in 1..Len(renderNav(copy)) :
              Cardinality({i \in 1..Len(view) :
                              "#" \o view[i].id = renderNav(copy)[k].href}) = 1

\* A query that matches no rule name is on screen: every section is
\* rendered with an empty list.
C28_Witness ==
    /\ view # <<>>
    /\ query = "aa"
    /\ Len(view) = 13
    /\ \A i \in 1..Len(view) : view[i].names = <<>>

----------------------------------------------------------------------------
(* Relations between filterNames calls *)

\* filterNames tabulated over the bounded inputs: one call per query and list.
filterNamesTable ==
    [qry \in Queries |-> [ns \in NameLists |-> filterNames(qry, ns)]]

\* For each query, the queries that, trimmed, are contained in it once it is
\* trimmed, letter case ignored: the queries it can be typed on from.
ContainedQueries ==
    [qry \in Queries |->
        {other \in Queries : ContainsIgnoringCase(Trimmed(qry), Trimmed(other))}]

\* For each query, the queries that differ from it only in letter case or in
\* surrounding white space.
EquivalentQueries ==
    [qry \in Queries |->
        {other \in Queries :
            toLowerCase(Trimmed(other)) = toLowerCase(Trimmed(qry))}]

\* C29: filtering narrows monotonically, is idempotent, and ignores letter
\* case and surrounding white space of the query.  For the call made and
\* every other query on the same list: when the other query, trimmed, is
\* contained in the trimmed query of the call (letter case ignored), the
\* result is a subsequence of the other query's result; filtering the result
\* again with the same query returns it unchanged; and a query that differs
\* only in letter case or surrounding white space returns the same result.
C29_NarrowsMonotonically ==
    fpc = "done" =>
        /\ \A other \in ContainedQueries[query] :
              IsSubsequence(result, filterNamesTable[other][names])
        /\ filterNames(query, result) = result
        /\ \A other \in EquivalentQueries[query] :
              filterNamesTable[other][names] = result

\* The query " Ab" keeps one of two names that the shorter query "b" both
\* keeps.
C29_Witness ==
    /\ fpc = "done"
    /\ query = " Ab"
    /\ names = <<"b a", "Ab">>
    /\ result = <<"Ab">>
    /\ filterNames("b", names) = names
    /\ filterNames("aB ", names) = result

----------------------------------------------------------------------------
(* The placeholders of diagramToSvgString as markup *)

\* The positions at which "-->" ends a comment in str.
CommentEnds(str) ==
    {i \in 1..(Len(str) - 2) : SubSeq(str, i, i + 2) = "-->"}

\* One well-formed markup comment: opened by "<!--" and closed by the "-->"
\* that ends the string, with no "-->" before it.
OneComment(str) ==
    /\ Len(str) >= 7
    /\ SubSeq(str, 1, 4) = "<!--"
    /\ CommentEnds(str) = {Len(str) - 2}

\* diagramToSvgString returned one of its placeholders: a string that opens
\* a comment.  No toSVG or toString result of the inputs opens one.
PlaceholderReturned ==
    /\ rpc = "done"
    /\ ~output.threw
    /\ output.value.t = "string"
    /\ Len(output.value.s) >= 4
    /\ SubSeq(output.value.s, 1, 4) = "<!--"

\* C30 as stated: every placeholder diagramToSvgString returns is one
\* well-formed markup comment, whatever the message of the thrown error
\* interpolated into the "Render error" placeholder: it starts with "<!--",
\* ends with "-->" and contains no earlier "-->".
C30_PlaceholderIsOneComment ==
    PlaceholderReturned => OneComment(output.value.s)

====
